---- MODULE Spec2Model ----
(***************************************************************************)
(* Refresh orchestration of the Tableau KPI card extension.                *)
(*                                                                         *)
(* The repository holds two live revisions of the orchestrator:            *)
(*   "main"     src/src/main.js       (debounce callback runs              *)
(*                                     checkForChanges before refreshing)  *)
(*   "part_002" src/unnamed/part_002  (debounce callback refreshes always, *)
(*                                     period/granularity/rolling controls)*)
(* The revision is fixed in Init; every action is translated from the      *)
(* handler of that revision.                                               *)
(*                                                                         *)
(* JavaScript runs the handlers on one thread: a step of the model is what *)
(* runs between two suspension points (await), i.e. "the pending host call *)
(* of this task completes, the code continues and issues its next call".   *)
(* A task whose pc is "apply"/"clear"/"sum"... has ISSUED that host call   *)
(* and waits for it; the call takes effect on the worksheet in the step    *)
(* that leaves the pc.                                                     *)
(***************************************************************************)
EXTENDS Integers, Sequences, FiniteSets, TLC

\* ---------------------------------------------------------------- bounds
MaxRefresh == 2      \* refreshKPIs invocations that pass the isCalculating gate
MaxEvents  == 2      \* environment events: user events (control edits, reload
                     \* clicks), external changes, host calls that reject
MaxNow     == 1      \* distinct later readings of Date.now()
NumCards   == 1      \* bars/lines encodings of the "full" configuration

\* ------------------------------------------------------- program constants
DefaultRollingDays  == 30   \* rollingDefaults.days
DefaultRollingWeeks == 12   \* rollingDefaults.weeks
MinRolling          == 4    \* lower clamp of the rolling input

\* Values of one variable are kept comparable: tuples and records throughout.
NULL     == << "null" >>                 \* state.lastStateHash = null
NoFilter == << "none" >>                 \* no date-range filter on the worksheet
NoCards  == << "none" >>                 \* no cards in #kpi-container
NoEntry  == [tot |-> << "absent" >>]     \* state.chartCache[key] undefined
NoCtx    == [ext |-> FALSE, cfg |-> "-", since |-> 0]
NoCheck  == [absent |-> FALSE, differs |-> FALSE, stored |-> FALSE, own |-> FALSE,
             out |-> "none"]

Revisions     == {"main", "part_002"}
Periods       == {"mtd", "rolling"}     \* options of part_002 the model draws from
MainPeriods   == {"mtd", "qtd"}         \* options of main.js the model draws from
Granularities == {"days", "weeks"}
WeekStarts    == {"monday", "sunday"}
RollingValues == {MinRolling, DefaultRollingDays}
Configs       == {"full", "nodate", "nometric"}
Cards         == 1..NumCards

VARIABLES
  rev,                    \* revision of the orchestrator
  cfg, data,              \* host: visual specification, data version
  wsFilter,               \* host: date-range filter on the date field
  hostListeners,          \* host: registered SummaryDataChanged listeners
  selectedPeriod, granularity, weekStart, rollingCount,   \* state.* (PeriodSpec)
  isCalculating, isApplyingOwnFilters,                    \* state.* flags
  unregisterDataHandler,  \* state.unregisterDataHandler # null
  lastStateHash,          \* state.lastStateHash
  chartCache,             \* state.chartCache
  resizeTimer,            \* pending debounce timeouts
  rpc, rper, rwin, rtot, rcfg,   \* refreshKPIs task: pc and locals
  cpc, ccfg,              \* debounce callback task (checkForChanges), main.js
  loaders,                \* loadChartsAsync tasks, one per refresh
  shown,                  \* what #kpi-container shows: the cards' windows
  now,                    \* last reading of Date.now()
  timerExt,               \* history: the pending burst holds an external notification
  timerNow,               \* history: the last Date.now() reading when the timeout was set
  lastCheck,              \* history: what the debounce callback did in the step just taken
  nRefresh, nEvents,      \* history: counters that bound the model
  lcCards, lcCache, lcI, lcStage, lcRef, lcLog,  \* loadChartsAsync run on its own
  srRows, srDateCol, srMetricCol, srStage, srDay, srPoints, \* fetchBarChartData
  cbEnc, cbDetail, cbRows, cbResults, cbKeys, cbCards, cbStage, \* card building
  dtAnchor, dtSpec, dtPeriods, dtStage,   \* the range calculator
  hsTooltip, hsFilters, hsHash, hsSeen,   \* computeStateHash
  ttPath, ttRows, ttI, ttVal, ttFmt,      \* tooltip values of one bucket
  brChart, brSel, brTip, brHi, brLast     \* one chart's brush and hover

orchVars == << rev, cfg, data, wsFilter, hostListeners,
           selectedPeriod, granularity, weekStart, rollingCount,
           isCalculating, isApplyingOwnFilters, unregisterDataHandler,
           lastStateHash, chartCache, resizeTimer,
           rpc, rper, rwin, rtot, rcfg, cpc, ccfg, loaders, shown, now,
           timerExt, timerNow, lastCheck, nRefresh, nEvents >>

\* One loadChartsAsync invocation studied on its own: its cards, the cache,
\* the loop position, the local chartDataReference and the log of what it did.
lcVars == << lcCards, lcCache, lcI, lcStage, lcRef, lcLog >>

\* One fetchBarChartData call studied on its own: the rows of the worksheet
\* inside the window, whether the summary carries the date and the metric
\* column, the position in the function, the loop variable d and dataPoints.
srVars == << srRows, srDateCol, srMetricCol, srStage, srDay, srPoints >>

\* The variables of the studies of single functions.
\* The card building of refreshKPIs studied on its own, over successive
\* refreshes: state.encodings.orderedMetrics, whether detailFields is not
\* empty, the raw rows of the current window, results, state.orderedDetailKeys,
\* the cards and the position in refreshKPIs.
cbVars == << cbEnc, cbDetail, cbRows, cbResults, cbKeys, cbCards, cbStage >>

\* The range calculator studied on its own: anchorDate, the PeriodSpec, the
\* periods object and the position in its construction.
dtVars == << dtAnchor, dtSpec, dtPeriods, dtStage >>

\* computeStateHash studied on its own: the tooltip encodings and the
\* filters as the host lists them, the last hash returned and the listings
\* hashed so far.
hsVars == << hsTooltip, hsFilters, hsHash, hsSeen >>

\* The aggregation of one tooltip field over the rows of one bucket studied on
\* its own: which of the two series builders runs, the cells of the field in
\* the rows of the bucket, the position in summary.data.forEach and the
\* bucket's { val, fmt }.
ttVars == << ttPath, ttRows, ttI, ttVal, ttFmt >>

\* The variables of the studies of the interface functions.
\* The interaction layer of one rendered chart studied on its own: the chart
\* as rendered (revision, chart type, the two series, isUnfavorable, the fill
\* of the current bars), the brush selection, the content of the tooltip, the
\* indices of the bars with class 'active' and the last pointer event.
brVars == << brChart, brSel, brTip, brHi, brLast >>

uiVars == << hsVars, ttVars, brVars >>

auxVars == << lcVars, srVars, cbVars, dtVars, uiVars >>

vars == << orchVars, auxVars >>

hostVars  == << cfg, data >>
specVars  == << selectedPeriod, granularity, weekStart, rollingCount >>
checkVars == << cpc, ccfg >>

\* ---------------------------------------------------------------- helpers

\* getRange: the state the three windows depend on (the anchor is "now").
\* mtd reads only the period; rolling also reads state.granularity,
\* state.rollingCount and, for weeks, state.weekStart.
getRange(period, gran, ws, count) ==
  IF period = "rolling"
    THEN << period, gran, IF gran = "weeks" THEN ws ELSE "-", count >>
    ELSE << period >>

CurrentRange == getRange(selectedPeriod, granularity, weekStart, rollingCount)

\* The window labels in the order refreshKPIs fetches them.
WindowLabel(i) == << "current", "prevMonth", "prevYear" >>[i]

\* The totals fetchDataForRange sums: a function of the rows the host returns,
\* i.e. of the data version and of the date-range filter in force at the read.
Totals(d, filter) == << d, filter >>

\* computeStateHash, success path: encodings, filters, selected period.
StateHash(c, filter, period) == << c, filter, period >>

\* computeStateHash, catch path: Date.now().toString().
TimeHash(t) == << "now", t >>

IdleLoader == [pc |-> "done", card |-> 0, which |-> "-", per |-> << >>,
               tot |-> << >>, key |-> "-", gran |-> "-"]


\* ------------------------------------------------------------------- Init
\* The state at the end of the synchronous part of the DOMContentLoaded handler:
\* controls initialised, the data-change listener registered, the initial
\* refreshKPIs call not yet made.
OrchInit ==
  /\ rev \in Revisions
  /\ cfg = "full"
  /\ data = 0
  /\ wsFilter = NoFilter
  /\ hostListeners = 1
  /\ selectedPeriod = (IF rev = "main" THEN "mtd" ELSE "rolling")
  /\ granularity = "days"
  /\ weekStart = "monday"
  /\ rollingCount = DefaultRollingDays
  /\ isCalculating = FALSE
  /\ isApplyingOwnFilters = FALSE
  /\ unregisterDataHandler = TRUE
  /\ lastStateHash = NULL
  /\ chartCache = [k \in Cards \X (Periods \cup MainPeriods) |-> NoEntry]
  /\ resizeTimer = 0
  /\ rpc = "boot"
  /\ rper = << >>
  /\ rwin = 0
  /\ rtot = << >>
  /\ rcfg = "-"
  /\ cpc = "idle"
  /\ ccfg = NoCtx
  /\ loaders = [l \in 1..MaxRefresh |-> IdleLoader]
  /\ shown = NoCards
  /\ now = 0
  /\ timerExt = FALSE
  /\ timerNow = 0
  /\ lastCheck = NoCheck
  /\ nRefresh = 0
  /\ nEvents = 0

\* loadChartsAsync not under study.
LcIdle ==
  /\ lcCards = << >>
  /\ lcCache = << >>
  /\ lcI = 0
  /\ lcStage = "off"
  /\ lcRef = << >>
  /\ lcLog = << >>

\* fetchBarChartData not under study.
SrIdle ==
  /\ srRows = << >>
  /\ srDateCol = FALSE
  /\ srMetricCol = FALSE
  /\ srStage = "off"
  /\ srDay = 0
  /\ srPoints = << >>

\* The card building not under study.
CbIdle ==
  /\ cbEnc = << >>
  /\ cbDetail = FALSE
  /\ cbRows = << >>
  /\ cbResults = << >>
  /\ cbKeys = << >>
  /\ cbCards = << >>
  /\ cbStage = "off"

\* The range calculator not under study.
DtIdle ==
  /\ dtAnchor = << >>
  /\ dtSpec = << >>
  /\ dtPeriods = << >>
  /\ dtStage = "off"

\* No hash returned yet.
NoHash == [period |-> "none"]

\* computeStateHash not under study.
HsIdle ==
  /\ hsTooltip = << >>
  /\ hsFilters = << >>
  /\ hsHash = NoHash
  /\ hsSeen = {}

\* The tooltip aggregation not under study.
TtIdle ==
  /\ ttPath = "none"
  /\ ttRows = << >>
  /\ ttI = 0
  /\ ttVal = [t |-> "null"]
  /\ ttFmt = ""

\* The interaction layer not under study.
BrIdle ==
  /\ brChart = << >>
  /\ brSel = << >>
  /\ brTip = [kind |-> "hidden"]
  /\ brHi = {}
  /\ brLast = "none"

UiIdle == HsIdle /\ TtIdle /\ BrIdle

Init == OrchInit /\ LcIdle /\ SrIdle /\ CbIdle /\ DtIdle /\ UiIdle

\* --------------------------------------------------- change notifications

\* handleDataChange, the synchronous part: drop the event under the guard flag,
\* otherwise clearTimeout + setTimeout(callback, 1000).
handleDataChangeNoClear(isExt) ==
  IF isApplyingOwnFilters
    THEN UNCHANGED << resizeTimer, timerExt, timerNow >>
    ELSE /\ resizeTimer' = resizeTimer + 1
         /\ timerExt' = ((resizeTimer > 0 /\ timerExt) \/ isExt)
         /\ timerNow' = now

handleDataChange(isExt) ==
  IF isApplyingOwnFilters
    THEN UNCHANGED << resizeTimer, timerExt, timerNow >>
    ELSE /\ resizeTimer' = 1
         /\ timerExt' = ((resizeTimer > 0 /\ timerExt) \/ isExt)
         /\ timerNow' = now

\* The host raises SummaryDataChanged when the summary data changed and calls
\* the listeners registered at that moment.
RaiseDataChanged(fired, isExt) ==
  IF fired /\ hostListeners > 0
    THEN handleDataChange(isExt)
    ELSE UNCHANGED << resizeTimer, timerExt, timerNow >>

\* applyRangeFilterAsync / clearFilterAsync taking effect: the filter on the
\* date field is replaced; the summary data changes when the filter does.
SetFilter(f) ==
  /\ wsFilter' = f
  /\ RaiseDataChanged(f # wsFilter, FALSE)

\* A host call resolves (ok) or rejects; the model bounds the rejections.
HostOutcomes == IF nEvents < MaxEvents THEN BOOLEAN ELSE {TRUE}

HostCall(ok) == nEvents' = IF ok THEN nEvents ELSE nEvents + 1

\* ------------------------------------------------------------ refreshKPIs

refreshLocals == << rper, rwin, rtot, rcfg >>

\* Can a refreshKPIs call be made here without exceeding the model's bound?
CanCallRefresh == isCalculating \/ nRefresh < MaxRefresh

refreshKPIsKeepListener ==
  IF isCalculating
    THEN UNCHANGED << isCalculating, isApplyingOwnFilters, shown, hostListeners,
                      unregisterDataHandler, rpc, nRefresh, refreshLocals >>
    ELSE /\ isCalculating' = TRUE
         /\ isApplyingOwnFilters' = TRUE
         /\ shown' = NoCards
         /\ hostListeners' = hostListeners
         /\ unregisterDataHandler' = FALSE
         /\ rpc' = "spec"
         /\ nRefresh' = nRefresh + 1
         /\ UNCHANGED refreshLocals

\* refreshKPIs up to its first await: the isCalculating gate, both flags set,
\* "Calculating...", the listener unregistered, getVisualSpecificationAsync issued.
refreshKPIs ==
  IF isCalculating
    THEN UNCHANGED << isCalculating, isApplyingOwnFilters, shown, hostListeners,
                      unregisterDataHandler, rpc, nRefresh, refreshLocals >>
    ELSE /\ isCalculating' = TRUE
         /\ isApplyingOwnFilters' = TRUE
         /\ shown' = NoCards
         /\ hostListeners' = IF unregisterDataHandler THEN hostListeners - 1 ELSE hostListeners
         /\ unregisterDataHandler' = FALSE
         /\ rpc' = "spec"
         /\ nRefresh' = nRefresh + 1
         /\ UNCHANGED refreshLocals

\* The finally block of refreshKPIs: both flags cleared and the listener
\* registered again when state.unregisterDataHandler is null.
FinallyNoRestore ==
  /\ isCalculating' = FALSE
  /\ isApplyingOwnFilters' = FALSE
  /\ UNCHANGED << hostListeners, unregisterDataHandler >>
  /\ rpc' = "idle"
  /\ rper' = << >> /\ rwin' = 0 /\ rtot' = << >> /\ rcfg' = "-"

Finally ==
  /\ isCalculating' = FALSE
  /\ isApplyingOwnFilters' = FALSE
  /\ hostListeners' = IF unregisterDataHandler THEN hostListeners ELSE hostListeners + 1
  /\ unregisterDataHandler' = TRUE
  /\ rpc' = "idle"
  /\ rper' = << >> /\ rwin' = 0 /\ rtot' = << >> /\ rcfg' = "-"


flagVars == << isCalculating, isApplyingOwnFilters, hostListeners, unregisterDataHandler >>
timerVars == << resizeTimer, timerExt, timerNow >>

\* What no step of the refreshKPIs task touches.
RefreshFrame ==
  /\ lastCheck' = NoCheck
  /\ UNCHANGED auxVars
  /\ UNCHANGED << rev, hostVars, specVars, checkVars, nRefresh >>

\* ---------------------------------------------------------- loadChartsAsync

\* The dates a series fetch filters on: periods.prevMonth for the reference
\* series, periods.current for the current series.
SeriesWindow(which, per) ==
  << IF which = "ref" THEN "prevMonth" ELSE "current", per >>

\* isCacheValid: an entry exists and both totals match the card's totals.
isCacheValid(cached, tot) == cached # NoEntry /\ cached.tot = tot

\* loadChartsAsync from card i up to its next await: cards with a valid cache
\* entry are rendered from the cache on the spot; the first card without one
\* issues the applyRangeFilterAsync of its reference series fetch.
RECURSIVE loadChartsFrom(_, _, _, _)
loadChartsFrom(i, per, tot, cache) ==
  IF i > NumCards
    THEN IdleLoader
    ELSE IF isCacheValid(cache[<< i, selectedPeriod >>], tot)
      THEN loadChartsFrom(i + 1, per, tot, cache)
      ELSE [pc |-> "apply", card |-> i, which |-> "ref", per |-> per, tot |-> tot,
            key |-> selectedPeriod, gran |-> granularity]

\* ------------------------------------------------- refreshKPIs, step by step

\* getVisualSpecificationAsync resolved: encodings read, date field and metric
\* fields resolved, the three windows computed, the first totals fetch issued.
R_Spec ==
  /\ rpc = "spec"
  /\ \E ok \in HostOutcomes :
       /\ HostCall(ok)
       /\ IF ~ok
            THEN Finally
            ELSE /\ UNCHANGED << flagVars, rtot >>
                 /\ rcfg' = cfg
                 /\ CASE cfg = "nodate"   -> rpc' = "filters" /\ UNCHANGED << rper, rwin >>
                      [] cfg = "nometric" -> rpc' = "probe" /\ UNCHANGED << rper, rwin >>
                      [] OTHER            -> /\ rper' = CurrentRange
                                             /\ rwin' = 1
                                             /\ rpc' = "apply"
  /\ UNCHANGED << wsFilter, timerVars, lastStateHash, chartCache, loaders, shown, now >>
  /\ RefreshFrame

\* getFiltersAsync resolved (no date encoding): no date filter either, the
\* empty state is shown and refreshKPIs returns; a throw ends in the same finally.
R_Filters ==
  /\ rpc = "filters"
  /\ Finally
  /\ UNCHANGED << nEvents, wsFilter, timerVars, lastStateHash, chartCache, loaders, shown, now >>
  /\ RefreshFrame

\* getSummaryDataAsync({maxRows: 1}) resolved (no metric encoding): no numeric
\* column to fall back on, the empty state is shown and refreshKPIs returns.
R_Probe ==
  /\ rpc = "probe"
  /\ Finally
  /\ UNCHANGED << nEvents, wsFilter, timerVars, lastStateHash, chartCache, loaders, shown, now >>
  /\ RefreshFrame

\* fetchDataForRange: applyRangeFilterAsync resolved, getSummaryDataAsync issued.
\* A throw is rethrown to the catch of refreshKPIs: the filter is not cleared.
R_Apply ==
  /\ rpc = "apply"
  /\ \E ok \in HostOutcomes :
       /\ HostCall(ok)
       /\ IF ~ok
            THEN /\ Finally
                 /\ UNCHANGED << wsFilter, timerVars >>
            ELSE /\ SetFilter(<< WindowLabel(rwin), rper >>)
                 /\ rpc' = "sum"
                 /\ UNCHANGED << flagVars, rper, rwin, rtot, rcfg >>
  /\ UNCHANGED << lastStateHash, chartCache, loaders, shown, now >>
  /\ RefreshFrame

\* fetchDataForRange: getSummaryDataAsync resolved, the rows summed into
\* results[rangeLabel]; the next window's filter (or the final clear) issued.
R_Sum ==
  /\ rpc = "sum"
  /\ \E ok \in HostOutcomes :
       /\ HostCall(ok)
       /\ IF ~ok
            THEN Finally
            ELSE /\ rtot' = IF rwin <= 2 THEN Append(rtot, Totals(data, wsFilter)) ELSE rtot
                 /\ IF rwin < 3
                      THEN rwin' = rwin + 1 /\ rpc' = "apply"
                      ELSE rwin' = rwin /\ rpc' = "clear"
                 /\ UNCHANGED << flagVars, rper, rcfg >>
  /\ UNCHANGED << wsFilter, timerVars, lastStateHash, chartCache, loaders, shown, now >>
  /\ RefreshFrame

\* clearFilterAsync resolved: cards built, rendered with skeleton charts,
\* loadChartsAsync started without await, computeStateHash issued.
R_Clear ==
  /\ rpc = "clear"
  /\ \E ok \in HostOutcomes :
       /\ HostCall(ok)
       /\ IF ~ok
            THEN /\ Finally
                 /\ UNCHANGED << wsFilter, timerVars, shown, loaders >>
            ELSE /\ SetFilter(NoFilter)
                 /\ shown' = rper
                 /\ loaders' = [loaders EXCEPT ![nRefresh] =
                                  loadChartsFrom(1, rper, rtot, chartCache)]
                 /\ rpc' = "hash_spec"
                 /\ UNCHANGED << flagVars, rper, rwin, rtot, rcfg >>
  /\ UNCHANGED << lastStateHash, chartCache, now >>
  /\ RefreshFrame

\* computeStateHash: getVisualSpecificationAsync resolved, getFiltersAsync
\* issued; on a throw the hash is Date.now() and the finally block runs.
R_HashSpec ==
  /\ rpc = "hash_spec"
  /\ \E ok \in HostOutcomes :
       /\ HostCall(ok)
       /\ IF ~ok
            THEN \E t \in now..MaxNow :
                   /\ now' = t
                   /\ lastStateHash' = TimeHash(t)
                   /\ Finally
            ELSE /\ rcfg' = cfg
                 /\ rpc' = "hash_filters"
                 /\ UNCHANGED << flagVars, rper, rwin, rtot, lastStateHash, now >>
  /\ UNCHANGED << wsFilter, timerVars, chartCache, loaders, shown >>
  /\ RefreshFrame

\* computeStateHash: getFiltersAsync resolved, the hash stored in
\* state.lastStateHash, then the finally block.
R_HashFilters ==
  /\ rpc = "hash_filters"
  /\ \E ok \in HostOutcomes :
       /\ HostCall(ok)
       /\ IF ok
            THEN /\ lastStateHash' = StateHash(rcfg, wsFilter, selectedPeriod)
                 /\ now' = now
            ELSE \E t \in now..MaxNow :
                   /\ now' = t
                   /\ lastStateHash' = TimeHash(t)
  /\ Finally
  /\ UNCHANGED << wsFilter, timerVars, chartCache, loaders, shown >>
  /\ RefreshFrame


\* ------------------------------------------- loadChartsAsync, step by step

\* What no step of a loadChartsAsync task touches.
LoaderFrame ==
  /\ lastCheck' = NoCheck
  /\ UNCHANGED auxVars
  /\ UNCHANGED << rev, hostVars, specVars, checkVars, flagVars, lastStateHash,
                  rpc, refreshLocals, shown, now, nRefresh >>

\* A series fetch of loadChartsAsync returned (its points, or [] from its
\* catch). After the reference series: render it alone and issue the current
\* series fetch. After the current series: render both, write the cache entry
\* under the key computed when the card was started, go on to the next card.
AfterFetch(l) ==
  LET me == loaders[l] IN
  IF me.which = "ref"
    THEN /\ loaders' = [loaders EXCEPT ![l] =
                          [me EXCEPT !.pc = "apply", !.which = "cur",
                                     !.gran = granularity]]
         /\ UNCHANGED chartCache
    ELSE LET cache == [chartCache EXCEPT ![<< me.card, me.key >>] =
                          [tot |-> me.tot, gran |-> me.gran]]
         IN /\ chartCache' = cache
            /\ loaders' = [loaders EXCEPT ![l] =
                             loadChartsFrom(me.card + 1, me.per, me.tot, cache)]

\* fetchBarChartData / fetchAggregatedChartData: applyRangeFilterAsync
\* resolved, getSummaryDataAsync issued. A throw returns [] from the catch.
L_Apply(l) ==
  /\ loaders[l].pc = "apply"
  /\ \E ok \in HostOutcomes :
       /\ HostCall(ok)
       /\ IF ~ok
            THEN /\ AfterFetch(l)
                 /\ UNCHANGED << wsFilter, timerVars >>
            ELSE /\ SetFilter(SeriesWindow(loaders[l].which, loaders[l].per))
                 /\ loaders' = [loaders EXCEPT ![l].pc = "sum"]
                 /\ UNCHANGED chartCache
  /\ LoaderFrame

\* getSummaryDataAsync resolved: the rows grouped into points,
\* clearFilterAsync issued. A throw returns [] from the catch: no clear.
L_Sum(l) ==
  /\ loaders[l].pc = "sum"
  /\ \E ok \in HostOutcomes :
       /\ HostCall(ok)
       /\ IF ~ok
            THEN AfterFetch(l)
            ELSE /\ loaders' = [loaders EXCEPT ![l].pc = "clear"]
                 /\ UNCHANGED chartCache
  /\ UNCHANGED << wsFilter, timerVars >>
  /\ LoaderFrame

\* clearFilterAsync resolved: the fetch returns its points (or [] on a throw).
L_Clear(l) ==
  /\ loaders[l].pc = "clear"
  /\ \E ok \in HostOutcomes :
       /\ HostCall(ok)
       /\ IF ~ok
            THEN UNCHANGED << wsFilter, timerVars >>
            ELSE SetFilter(NoFilter)
       /\ AfterFetch(l)
  /\ LoaderFrame


\* ------------------------------------------------------------ user events

\* What a user event leaves alone besides what refreshKPIs touches.
UserFrame ==
  /\ lastCheck' = NoCheck
  /\ UNCHANGED auxVars
  /\ UNCHANGED << rev, hostVars, wsFilter, chartCache, timerVars, checkVars,
                  loaders, now >>

Booted == rpc # "boot"

\* The initial load at the end of the DOMContentLoaded handler.
InitialLoad ==
  /\ rpc = "boot"
  /\ refreshKPIs
  /\ UNCHANGED << specVars, lastStateHash, nEvents >>
  /\ UserFrame

\* rollingDefaults[granularity], as updateControlsVisibility stores it.
rollingDefaults(g) == IF g = "weeks" THEN DefaultRollingWeeks ELSE DefaultRollingDays

\* 'change' on #period-granularity-select (part_002).
PeriodGranularitySelect(p, g) ==
  /\ Booted /\ rev = "part_002"
  /\ nEvents < MaxEvents /\ CanCallRefresh
  /\ << p, g >> # << selectedPeriod, granularity >>
  /\ selectedPeriod' = p
  /\ granularity' = g
  /\ rollingCount' = IF p = "rolling" THEN rollingDefaults(g) ELSE rollingCount
  /\ weekStart' = weekStart
  /\ lastStateHash' = NULL
  /\ refreshKPIs
  /\ nEvents' = nEvents + 1
  /\ UserFrame

\* 'change' on #period-selector (main.js).
PeriodSelector(p) ==
  /\ Booted /\ rev = "main"
  /\ nEvents < MaxEvents /\ CanCallRefresh
  /\ p # selectedPeriod
  /\ selectedPeriod' = p
  /\ UNCHANGED << granularity, weekStart, rollingCount >>
  /\ lastStateHash' = NULL
  /\ refreshKPIs
  /\ nEvents' = nEvents + 1
  /\ UserFrame

\* 'change' on #week-start-select (shown while the granularity is weeks).
WeekStartSelect(ws) ==
  /\ Booted /\ rev = "part_002"
  /\ nEvents < MaxEvents /\ CanCallRefresh
  /\ granularity = "weeks" /\ ws # weekStart
  /\ weekStart' = ws
  /\ UNCHANGED << selectedPeriod, granularity, rollingCount >>
  /\ lastStateHash' = NULL
  /\ refreshKPIs
  /\ nEvents' = nEvents + 1
  /\ UserFrame

\* 'input' on #rolling-slider (shown while the period is rolling): the count
\* is stored, nothing else happens.
RollingSliderInput(v) ==
  /\ Booted /\ rev = "part_002"
  /\ nEvents < MaxEvents
  /\ selectedPeriod = "rolling" /\ v # rollingCount
  /\ rollingCount' = v
  /\ UNCHANGED << selectedPeriod, granularity, weekStart, lastStateHash, flagVars,
                  rpc, refreshLocals, shown, nRefresh >>
  /\ nEvents' = nEvents + 1
  /\ UserFrame

\* 'input' on #rolling-input: the value clamped to 4..30 is stored.
RollingInputInput(v) ==
  /\ Booted /\ rev = "part_002"
  /\ nEvents < MaxEvents
  /\ selectedPeriod = "rolling" /\ v # rollingCount
  /\ rollingCount' = v
  /\ UNCHANGED << selectedPeriod, granularity, weekStart, lastStateHash, flagVars,
                  rpc, refreshLocals, shown, nRefresh >>
  /\ nEvents' = nEvents + 1
  /\ UserFrame

\* 'change' on #rolling-input: the fingerprint reset and a refresh requested.
RollingInputChange ==
  /\ Booted /\ rev = "part_002"
  /\ nEvents < MaxEvents /\ CanCallRefresh
  /\ selectedPeriod = "rolling"
  /\ UNCHANGED specVars
  /\ lastStateHash' = NULL
  /\ refreshKPIs
  /\ nEvents' = nEvents + 1
  /\ UserFrame

\* The contextmenu listener is registered after the awaited initial load.
InitialLoadDone == Booted /\ (rpc = "idle" \/ nRefresh > 1)

\* Context menu "Reload Extension": refreshKPIs, the fingerprint left alone.
ReloadClick ==
  /\ InitialLoadDone
  /\ nEvents < MaxEvents /\ CanCallRefresh
  /\ UNCHANGED << specVars, lastStateHash >>
  /\ refreshKPIs
  /\ nEvents' = nEvents + 1
  /\ UserFrame

\* The host: the visual specification or the data changes, SummaryDataChanged
\* is raised.
ExternalChange ==
  /\ Booted
  /\ nEvents < MaxEvents
  /\ \/ cfg' \in Configs \ {cfg} /\ data' = data
     \/ cfg' = cfg /\ data' = 1 - data
  /\ RaiseDataChanged(TRUE, TRUE)
  /\ nEvents' = nEvents + 1
  /\ lastCheck' = NoCheck
  /\ UNCHANGED << rev, wsFilter, specVars, flagVars, lastStateHash, chartCache,
                  rpc, refreshLocals, checkVars, loaders, shown, now,
                  nRefresh, auxVars >>


\* ------------------------------------------------------ debounce callback

\* The earliest Date.now() reading the callback can take: the timeout elapsed
\* a debounce interval after it was set, so the clock has passed every reading
\* taken before that (`since` is the last of them).
AfterDebounce(since) == IF now > since THEN now ELSE since + 1

\* checkForChanges: the comparison of the fresh fingerprint with the stored one.
hasChangesAlways(fresh, stored) == TRUE

hasChanges(fresh, stored) == stored = NULL \/ fresh # stored

\* What a step of the debounce callback leaves alone besides what refreshKPIs
\* touches.
CallbackFrame ==
  UNCHANGED << rev, hostVars, wsFilter, specVars, chartCache, loaders, auxVars >>

\* History of a processed notification: was the stored fingerprint absent,
\* did it differ from the fingerprint of the moment, does the stored
\* fingerprint equal that one afterwards, did the burst hold only notifications
\* of the component's own filter calls, and what became of the refresh
\* ("refresh" started, "dropped" at the isCalculating gate, "unchanged" not
\* requested, "guarded" nothing done under the guard flag).
CheckRecord(stored, fresh, after, own, requested) ==
  [absent |-> stored = NULL, differs |-> stored # fresh, stored |-> after = fresh,
   own |-> own,
   out |-> IF ~requested THEN "unchanged"
           ELSE IF isCalculating THEN "dropped" ELSE "refresh"]

\* checkForChanges after computeStateHash returned `fresh`, and the callback's
\* refreshKPIs call when it reports a change (main.js).
CheckDone(fresh) ==
  LET changed == hasChanges(fresh, lastStateHash)
      after   == IF changed THEN fresh ELSE lastStateHash
  IN /\ lastStateHash' = after
     /\ IF changed
          THEN /\ CanCallRefresh
               /\ refreshKPIs
          ELSE UNCHANGED << flagVars, shown, rpc, nRefresh, refreshLocals >>
     /\ lastCheck' = CheckRecord(lastStateHash, fresh, after, ~ccfg.ext, changed)
     /\ cpc' = "idle"
     /\ ccfg' = NoCtx

\* The setTimeout callback of handleDataChange. Under the guard flag it does
\* nothing. Otherwise part_002 calls refreshKPIs at once; main.js starts
\* checkForChanges (computeStateHash issues getVisualSpecificationAsync).
TimerFire ==
  /\ resizeTimer > 0
  /\ resizeTimer' = resizeTimer - 1
  /\ timerExt' = (resizeTimer > 1 /\ timerExt)
  /\ timerNow' = IF resizeTimer > 1 THEN timerNow ELSE 0
  /\ IF isApplyingOwnFilters
       THEN /\ lastCheck' = [NoCheck EXCEPT !.out = "guarded", !.own = ~timerExt]
            /\ UNCHANGED << flagVars, shown, rpc, nRefresh, refreshLocals,
                            checkVars >>
       ELSE IF rev = "part_002"
         THEN /\ CanCallRefresh
              /\ refreshKPIs
              /\ lastCheck' = CheckRecord(lastStateHash,
                                          StateHash(cfg, wsFilter, selectedPeriod),
                                          lastStateHash, ~timerExt, TRUE)
              /\ UNCHANGED checkVars
         ELSE /\ cpc = "idle"
              /\ cpc' = "spec"
              /\ ccfg' = [ext |-> timerExt, cfg |-> "-", since |-> timerNow]
              /\ lastCheck' = NoCheck
              /\ UNCHANGED << flagVars, shown, rpc, nRefresh, refreshLocals >>
  /\ UNCHANGED << lastStateHash, now, nEvents >>
  /\ CallbackFrame

\* computeStateHash inside checkForChanges: getVisualSpecificationAsync
\* resolved, getFiltersAsync issued; on a throw the hash is Date.now().
C_Spec ==
  /\ cpc = "spec"
  /\ \E ok \in HostOutcomes :
       /\ HostCall(ok)
       /\ IF ok
            THEN /\ cpc' = "filters"
                 /\ ccfg' = [ccfg EXCEPT !.cfg = cfg]
                 /\ lastCheck' = NoCheck
                 /\ UNCHANGED << lastStateHash, now, flagVars, shown, rpc, nRefresh,
                                 refreshLocals >>
            ELSE \E t \in AfterDebounce(ccfg.since)..MaxNow :
                   /\ now' = t
                   /\ CheckDone(TimeHash(t))
  /\ UNCHANGED timerVars
  /\ CallbackFrame

\* computeStateHash inside checkForChanges: getFiltersAsync resolved.
C_Filters ==
  /\ cpc = "filters"
  /\ \E ok \in HostOutcomes :
       /\ HostCall(ok)
       /\ IF ok
            THEN /\ now' = now
                 /\ CheckDone(StateHash(ccfg.cfg, wsFilter, selectedPeriod))
            ELSE \E t \in AfterDebounce(ccfg.since)..MaxNow :
                   /\ now' = t
                   /\ CheckDone(TimeHash(t))
  /\ UNCHANGED timerVars
  /\ CallbackFrame

\* ------------------------------------------------------------------- Next

Next ==
  \/ InitialLoad
  \/ \E p \in Periods, g \in Granularities : PeriodGranularitySelect(p, g)
  \/ \E p \in MainPeriods : PeriodSelector(p)
  \/ \E ws \in WeekStarts : WeekStartSelect(ws)
  \/ \E v \in RollingValues : RollingSliderInput(v)
  \/ \E v \in RollingValues : RollingInputInput(v)
  \/ RollingInputChange
  \/ ReloadClick
  \/ ExternalChange
  \/ TimerFire
  \/ C_Spec
  \/ C_Filters
  \/ R_Spec
  \/ R_Filters
  \/ R_Probe
  \/ R_Apply
  \/ R_Sum
  \/ R_Clear
  \/ R_HashSpec
  \/ R_HashFilters
  \/ \E l \in 1..MaxRefresh : L_Apply(l)
  \/ \E l \in 1..MaxRefresh : L_Sum(l)
  \/ \E l \in 1..MaxRefresh : L_Clear(l)

Spec == Init /\ [][Next]_vars

\* ================================================================ properties

FetchPcs == {"apply", "sum", "clear"}

\* The loadChartsAsync tasks that still fetch series.
ActiveLoaders == {l \in 1..MaxRefresh : loaders[l].pc # "done"}

\* A refresh is in progress: the refreshKPIs body runs or series are loading.
RefreshInProgress == isCalculating \/ ActiveLoaders # {}

\* Nothing of the component is running or scheduled.
Quiescent ==
  /\ rpc = "idle" /\ cpc = "idle"
  /\ ActiveLoaders = {}
  /\ resizeTimer = 0

\* The debounce callback ran its body in the step just taken.
Processed == lastCheck.out \in {"refresh", "dropped", "unchanged"}

\* ---------------------------------------------------------------------- C1
\* C1: a refresh request that arrives while a refresh is in progress (from
\* the gate until the last card's series has been fetched) is dropped: no
\* refreshKPIs invocation passes the isCalculating gate in such a state.
C1_RequestWhileBusyDropped ==
  [][RefreshInProgress => nRefresh' = nRefresh]_vars

\* ---------------------------------------------------------------------- C2
\* C2: at any moment at most one task of the component is inside a
\* date-range-filter fetch sequence (apply issued .. summary read .. clear).
C2_OneFetchSequence ==
  Cardinality({l \in 1..MaxRefresh : loaders[l].pc \in FetchPcs})
    + (IF rpc \in FetchPcs THEN 1 ELSE 0) <= 1

\* ---------------------------------------------------------------------- C3
\* C3: once the component is idle, no date-range filter it applied remains on
\* the worksheet, whether the fetches succeeded or threw.
C3_FilterClearedWhenIdle == Quiescent => wsFilter = NoFilter

\* ---------------------------------------------------------------------- C4
\* C4: with no user input, no external change and no host failure, the
\* debounce callback never starts a refresh: the notifications of the
\* component's own filter calls do not re-trigger it.
C4_OwnNotificationsStartNoRefresh ==
  nEvents = 0 => lastCheck.out # "refresh"

\* ---------------------------------------------------------------------- C5
\* C5: whenever a task of the component issues applyRangeFilterAsync or
\* clearFilterAsync, state.isApplyingOwnFilters is true at that moment.
C5_GuardSetWhenFilterIssued ==
  [][ /\ (rpc' \in {"apply", "clear"} /\ << rpc', rwin' >> # << rpc, rwin >>)
        => isApplyingOwnFilters
      /\ \A l \in 1..MaxRefresh :
           (loaders'[l].pc \in {"apply", "clear"} /\ loaders'[l] # loaders[l])
             => isApplyingOwnFilters ]_vars

\* ---------------------------------------------------------------------- C6
\* C6: in the step in which the refresh body finishes, the guard flag is still
\* set and the listener still unregistered (both are released only after a
\* cooldown delay).
C6_CooldownBeforeRelease ==
  [][(isCalculating /\ rpc' = "idle")
       => (isApplyingOwnFilters' /\ hostListeners' = 0)]_vars

\* ---------------------------------------------------------------------- C7
\* C7: a refreshKPIs invocation that passed the gate has ended (on whichever
\* exit path) with isCalculating false, the guard flag cleared and the
\* data-change listener registered again.
C7_FlagsRestoredAtExit ==
  rpc = "idle" =>
    /\ ~isCalculating
    /\ ~isApplyingOwnFilters
    /\ unregisterDataHandler
    /\ hostListeners = 1

\* A refresh ended by a host exception after one of its filters was applied:
\* the fingerprint was never stored, the flags are released all the same.
C7_Witness ==
  /\ rpc = "idle" /\ nRefresh = 1
  /\ wsFilter # NoFilter /\ lastStateHash = NULL
  /\ ~isCalculating /\ hostListeners = 1

C9_CardsFollowPeriodSpec ==
  (Quiescent /\ shown # NoCards) => shown = CurrentRange

\* --------------------------------------------------------------------- C10
\* C10 as stated: a burst holding an external notification that arrived while
\* the guard flag was clear causes exactly one change check: when its debounce
\* timer elapses the callback processes it.
C10_BurstCausesOneCheck ==
  [][(resizeTimer > 0 /\ resizeTimer' < resizeTimer /\ timerExt)
       => (lastCheck'.out # "guarded")]_vars

\* C10 amended: a burst leaves at most one pending callback; the callback
\* processes it only if the guard flag is clear when it fires and discards it
\* otherwise; a notification under the guard flag schedules nothing.
C10_BurstAtMostOneCheck ==
  /\ [](resizeTimer <= 1)
  /\ [][/\ isApplyingOwnFilters => resizeTimer' <= resizeTimer
        /\ (resizeTimer > 0 /\ resizeTimer' < resizeTimer /\ isApplyingOwnFilters)
             => /\ lastCheck'.out = "guarded"
                /\ UNCHANGED << rpc, cpc, nRefresh, lastStateHash, wsFilter >>
        /\ (resizeTimer > 0 /\ resizeTimer' < resizeTimer /\ ~isApplyingOwnFilters)
             => (lastCheck'.out = "refresh" \/ cpc' = "spec")]_vars

\* A burst holding an external notification arrived with the guard flag clear
\* and its callback fired under the guard flag: nothing was checked.
C10_Witness == lastCheck.out = "guarded" /\ ~lastCheck.own

\* --------------------------------------------------------------------- C11
\* C11: a change check whose fingerprint computation failed (the fingerprint
\* is then a Date.now() reading) never reports "unchanged".
C11_FailedHashMeansChanged ==
  lastCheck.out = "unchanged" => lastStateHash[1] # "now"


\* ------------------------------------------- loadChartsAsync on its own
\* One invocation of loadChartsAsync, from the skeleton render that precedes
\* it, with no other task interleaved.  Totals are counted in thousandths, so
\* that 0.01 is 10.
NumLoaderCards == 2

CacheEpsilon == 10

LcNames == {"A", "B"}

Abs(x) == IF x < 0 THEN 0 - x ELSE x

\* state.chartCache[cacheKey] when the key was never written.
Undefined == [absent |-> TRUE]

\* A non-empty series returned by fetchChartDataByGranularity, and the []
\* its catch block returns.
Series(name, which) == << << name, which >> >>

EmptySeries == << >>

\* An entry left by an earlier loading of the same card.
OldEntry(name) ==
  [totalCurrent |-> 1000, totalReference |-> 2000,
   dataCurrent |-> Series(name, "cached current"),
   dataReference |-> Series(name, "cached reference")]

\* The cards handed to loadChartsAsync: name and the two totals.
LcCardSet ==
  [name : LcNames, current : {980, 995, 1000, 1010},
   reference : {2000, 2005, 2020}]

LcEvent(ev, i, cur, ref) == [ev |-> ev, card |-> i, cur |-> cur, ref |-> ref]

isCacheValidLoose(cached, card) ==
  /\ cached # Undefined
  /\ Abs(cached.totalCurrent - card.current) <= CacheEpsilon
  /\ Abs(cached.totalReference - card.reference) <= CacheEpsilon

\* isCacheValid of loadChartsAsync, on numbers.
isCacheValidEps(cached, card) ==
  /\ cached # Undefined
  /\ Abs(cached.totalCurrent - card.current) < CacheEpsilon
  /\ Abs(cached.totalReference - card.reference) < CacheEpsilon

\* The valid branch: both series come from the entry; the chart is drawn only
\* when the cached current series is not empty.
FromCache(i, cached, log) ==
  Append(log, LcEvent(IF cached.dataCurrent # EmptySeries
                      THEN "render cached" ELSE "keep cached",
                      i, cached.dataCurrent, cached.dataReference))

\* The loop of loadChartsAsync from card i up to its next await: cards with a
\* valid entry are served on the spot, the first other card issues the fetch
\* of its reference series.
RECURSIVE LcRun(_, _, _)
LcRun(i, cache, log) ==
  IF i > Len(lcCards)
  THEN [i |-> i, stage |-> "done", log |-> log]
  ELSE LET card == lcCards[i]
           cached == cache[card.name]
       IN  IF isCacheValidEps(cached, card)
           THEN LcRun(i + 1, cache, FromCache(i, cached, log))
           ELSE [i |-> i, stage |-> "reference",
                 log |-> Append(log, LcEvent("fetch reference", i,
                                             EmptySeries, EmptySeries))]

\* What a series fetch hands back: the series, or [] from its catch block.
FetchResult(ok, name, which) ==
  IF ok THEN Series(name, which) ELSE EmptySeries

FetchLog(ok, i, log) ==
  IF ok THEN log
  ELSE Append(log, LcEvent("fetch failed", i, EmptySeries, EmptySeries))

AfterReferenceNoRender(i, ref, log) ==
  Append(log, LcEvent("fetch current", i, EmptySeries, ref))

\* After the reference series arrived: it is drawn alone, with [] as the
\* current series, and the current series is requested.
AfterReference(i, ref, log) ==
  Append(Append(log, LcEvent("render", i, EmptySeries, ref)),
         LcEvent("fetch current", i, EmptySeries, ref))

\* After the current series arrived: both are drawn and the entry is written.
AfterCurrent(i, cur, ref, log) ==
  Append(Append(log, LcEvent("render", i, cur, ref)),
         LcEvent("write", i, cur, ref))

NewEntry(card, cur, ref) ==
  [totalCurrent |-> card.current, totalReference |-> card.reference,
   dataCurrent |-> cur, dataReference |-> ref]

ResumeAbort(i, cache, log) == [i |-> i, stage |-> "done", log |-> log]

\* The loop goes on with the next card once a card is finished.
Resume(i, cache, log) == LcRun(i + 1, cache, log)

LcFrame == UNCHANGED << orchVars, lcCards, srVars, cbVars, dtVars, uiVars >>

\* refreshKPIs: renderKPIs(cards, true), then loadChartsAsync is called and
\* runs up to its first await.
LC_Start ==
  /\ lcStage = "skeleton"
  /\ LET r == LcRun(1, lcCache,
                    << LcEvent("skeleton", 0, EmptySeries, EmptySeries) >>)
     IN  /\ lcI' = r.i
         /\ lcStage' = r.stage
         /\ lcLog' = r.log
  /\ UNCHANGED << lcCache, lcRef >>
  /\ LcFrame

\* The fetch of the reference series is over.
LC_Reference ==
  /\ lcStage = "reference"
  /\ \E ok \in BOOLEAN :
       LET ref == FetchResult(ok, lcCards[lcI].name, "reference")
       IN  /\ lcRef' = ref
           /\ lcLog' = AfterReference(lcI, ref, FetchLog(ok, lcI, lcLog))
  /\ lcStage' = "current"
  /\ UNCHANGED << lcCache, lcI >>
  /\ LcFrame

\* The fetch of the current series is over.
LC_Current ==
  /\ lcStage = "current"
  /\ \E ok \in BOOLEAN :
       LET card == lcCards[lcI]
           cur == FetchResult(ok, card.name, "current")
           cache == [lcCache EXCEPT ![card.name] = NewEntry(card, cur, lcRef)]
           r == Resume(lcI, cache,
                       AfterCurrent(lcI, cur, lcRef, FetchLog(ok, lcI, lcLog)))
       IN  /\ lcCache' = cache
           /\ lcI' = r.i
           /\ lcStage' = r.stage
           /\ lcLog' = r.log
  /\ lcRef' = EmptySeries
  /\ LcFrame

InitLoader ==
  /\ OrchInit
  /\ rev = "part_002"
  /\ lcCards \in [1..NumLoaderCards -> LcCardSet]
  /\ lcCache \in [LcNames -> {Undefined}]
                 \cup {[n \in LcNames |-> OldEntry(n)]}
                 \cup {[n \in LcNames |->
                          IF n = m THEN OldEntry(n) ELSE Undefined] :
                       m \in LcNames}
  /\ lcI = 0
  /\ lcStage = "skeleton"
  /\ lcRef = EmptySeries
  /\ lcLog = << >>
  /\ SrIdle
  /\ CbIdle
  /\ DtIdle
  /\ UiIdle

NextLoader == LC_Start \/ LC_Reference \/ LC_Current

SpecLoader == InitLoader /\ [][NextLoader]_vars

\* The scheduler runs a continuation whose awaited call has settled.
FairSpecLoader == SpecLoader /\ WF_vars(NextLoader)

\* The events of card i, in the order they happened.
CardLog(i) == SelectSeq(lcLog, LAMBDA e : e.card = i)

EventNames(log) == [k \in 1..Len(log) |-> log[k].ev]

WithinEpsilon(a, b) == a - b < 10 /\ b - a < 10

\* C12: a card is served from its cache entry, with no fetch, exactly when
\* the entry exists and both of its totals are within 0.01 of the card's;
\* otherwise both series are fetched and the entry is overwritten with the
\* card's totals and the fetched series.
C12_CacheUsedIffWithinEpsilon ==
  /\ [][\A k \in (Len(lcLog) + 1)..Len(lcLog') :
          LET e == lcLog'[k]
              card == lcCards[e.card]
              entry == lcCache'[card.name]
              close == /\ entry # Undefined
                       /\ WithinEpsilon(entry.totalCurrent, card.current)
                       /\ WithinEpsilon(entry.totalReference, card.reference)
          IN  /\ e.ev \in {"render cached", "keep cached"} => close
              /\ e.ev = "fetch reference" => ~close
              /\ e.ev = "write" =>
                   /\ entry = NewEntry(card, e.cur, e.ref)
                   /\ lcCache[card.name] # entry]_vars
  /\ [](lcStage = "done" =>
          \A i \in 1..Len(lcCards) :
            \/ EventNames(CardLog(i)) \in
                 {<< "render cached" >>, << "keep cached" >>}
            \/ LET n == SelectSeq(EventNames(CardLog(i)),
                                  LAMBDA x : x # "fetch failed")
               IN  n = << "fetch reference", "render", "fetch current",
                          "render", "write" >>)

\* A card 0.005 off its entry was served from the cache and a card 0.02 off
\* was fetched and written.
C12_Witness ==
  /\ lcStage = "done"
  /\ \E k \in 1..Len(lcLog) :
       /\ lcLog[k].ev = "render cached"
       /\ lcCards[lcLog[k].card].current = 995
       /\ lcCards[lcLog[k].card].reference = 2005
  /\ \E k \in 1..Len(lcLog) :
       /\ lcLog[k].ev = "write"
       /\ lcCards[lcLog[k].card].current = 980

IsPrefix(a, b) == Len(a) <= Len(b) /\ a = SubSeq(b, 1, Len(a))

FetchSteps ==
  << "fetch reference", "render", "fetch current", "render", "write" >>

\* What happened to card i, rejected fetches left aside.
CardSteps(i) ==
  SelectSeq(EventNames(CardLog(i)), LAMBDA x : x # "fetch failed")

\* C13: the skeleton of the whole list is rendered first; then the cards are
\* handled one at a time in list order, and a card without a valid entry goes
\* through: fetch reference, render the reference alone with an empty current
\* series, fetch current, render both, write the cache entry.
C13_ProgressiveOrder ==
  /\ lcLog # << >> =>
       /\ lcLog[1].ev = "skeleton"
       /\ \A k \in 2..Len(lcLog) :
            /\ lcLog[k].ev # "skeleton"
            /\ lcLog[k - 1].card <= lcLog[k].card
            /\ lcLog[k].card <= lcI
  /\ \A i \in 1..Len(lcCards) :
       LET log == CardLog(i)
           steps == CardSteps(i)
           renders == SelectSeq(log, LAMBDA e : e.ev = "render")
       IN  /\ \/ IsPrefix(steps, FetchSteps)
              \/ steps \in {<< "render cached" >>, << "keep cached" >>}
           /\ (i < lcI /\ lcStage # "skeleton") =>
                \/ steps = FetchSteps
                \/ steps \in {<< "render cached" >>, << "keep cached" >>}
           /\ Len(renders) >= 1 => renders[1].cur = EmptySeries
           /\ Len(renders) = 2 =>
                /\ renders[2].ref = renders[1].ref
                /\ log[Len(log)].ev = "write"
                /\ log[Len(log)].cur = renders[2].cur
                /\ lcCache[lcCards[i].name].dataReference = renders[1].ref
                   \/ \E j \in (i + 1)..Len(lcCards) :
                        lcCards[j].name = lcCards[i].name

\* Two cards were fetched one after the other, each drawn twice.
C13_Witness ==
  /\ lcStage = "done"
  /\ \A i \in 1..Len(lcCards) :
       /\ CardSteps(i) = FetchSteps
       /\ CardLog(i)[Len(CardLog(i))].cur # EmptySeries
       /\ CardLog(i)[Len(CardLog(i))].ref # EmptySeries

\* Card i was dealt with: served from the cache, or fetched, drawn and cached.
Handled(i) ==
  \/ CardSteps(i) = FetchSteps
  \/ CardSteps(i) \in {<< "render cached" >>, << "keep cached" >>}

\* C15: a series fetch that fails for a card hands back an empty series, which
\* is drawn like any other, and the loop still handles every remaining card.
C15_FailedFetchDoesNotStopLoading ==
  /\ [](\A k \in 1..Len(lcLog) :
          lcLog[k].ev = "fetch failed" =>
            /\ k < Len(lcLog)
            /\ lcLog[k + 1].ev = "render"
            /\ lcLog[k + 1].card = lcLog[k].card
            /\ lcLog[k - 1].ev = "fetch reference" =>
                 lcLog[k + 1].ref = EmptySeries
            /\ lcLog[k - 1].ev = "fetch current" =>
                 lcLog[k + 1].cur = EmptySeries)
  /\ [](lcStage = "done" => \A i \in 1..Len(lcCards) : Handled(i))
  /\ <>(lcStage = "done")

\* Both fetches of the first card failed and the second card was still
\* fetched, drawn with its series and cached.
C15_Witness ==
  /\ lcStage = "done"
  /\ Len(SelectSeq(CardLog(1), LAMBDA e : e.ev = "fetch failed")) = 2
  /\ CardSteps(2) = FetchSteps
  /\ CardLog(2)[Len(CardLog(2))].cur # EmptySeries

\* C14: a refresh whose fetch of a window's totals fails goes on (with totals
\* of 0) to build and render the cards: no step taken while a window's totals
\* are being fetched ends the refresh.
C14_TotalsFailureContinues ==
  [][(rev = "part_002" /\ rpc \in {"apply", "sum"} => rpc' # "idle")]_vars


\* ----------------------------------------- fetchBarChartData on its own
\* One call of fetchBarChartData for a window of SeriesDays calendar days,
\* numbered 1..SeriesDays; a row of the worksheet is a day and a number.
SeriesDays == 10

MaxRows == 3

SeriesRows == [day : 1..SeriesDays, val : {1, 2}]

RECURSIVE SumVals(_)
SumVals(rows) ==
  IF rows = << >> THEN 0 ELSE Head(rows).val + SumVals(Tail(rows))

\* getSummaryDataAsync under the range filter [min, max].
SummaryData(rows, min, max) ==
  SelectSeq(rows, LAMBDA r : min <= r.day /\ r.day <= max)

\* The Map "grouped", as the sequence of its buckets in insertion order, after
\* the rows were added one by one.
RECURSIVE Grouped(_, _)
Grouped(rows, buckets) ==
  IF rows = << >> THEN buckets
  ELSE LET r == Head(rows)
           at == {k \in 1..Len(buckets) : buckets[k].date = r.day}
       IN  IF at = {}
           THEN Grouped(Tail(rows),
                        Append(buckets, [date |-> r.day, value |-> r.val]))
           ELSE Grouped(Tail(rows),
                        [buckets EXCEPT ![CHOOSE k \in at : TRUE].value =
                                          @ + r.val])

\* Array.prototype.sort((a, b) => a.date - b.date), on distinct dates.
RECURSIVE SortByDate(_)
SortByDate(points) ==
  IF points = << >> THEN << >>
  ELSE LET m == CHOOSE k \in 1..Len(points) :
                  \A j \in 1..Len(points) : points[k].date <= points[j].date
       IN  << points[m] >> \o
           SortByDate(SelectSeq(points, LAMBDA q : q.date # points[m].date))

\* The bulk strategy: one point per date that has rows.
BulkPoints(rows) == SortByDate(Grouped(rows, << >>))

\* One iteration of the per-day loop: the day's rows summed, 0 when the
\* summary has no metric column.
DayPoint(d) ==
  [date |-> d,
   value |-> IF srMetricCol \/ rev = "main"
             THEN SumVals(SummaryData(srRows, d, d)) ELSE 0]

SrFrame ==
  UNCHANGED << orchVars, lcVars, cbVars, dtVars, uiVars, srRows, srDateCol,
               srMetricCol >>

\* catch (e) { return []; }
SrCatch ==
  /\ srStage' = "failed"
  /\ srPoints' = << >>
  /\ UNCHANGED srDay

\* The range filter over the whole window and its summary arrived: the rows
\* are grouped by date, or, when the summary lacks the date or the metric
\* column, the per-day loop starts.
SR_Bulk ==
  /\ srStage = "bulk"
  /\ \E ok \in BOOLEAN :
       IF ~ok THEN SrCatch
       ELSE IF srDateCol /\ srMetricCol
       THEN /\ srPoints' = BulkPoints(SummaryData(srRows, 1, SeriesDays))
            /\ srStage' = "clear"
            /\ UNCHANGED srDay
       ELSE /\ srPoints' = << >>
            /\ srStage' = "days"
            /\ srDay' = 1
  /\ SrFrame

\* One iteration of: for (d = start; d <= end; d.setDate(d.getDate() + 1)).
SR_Day ==
  /\ srStage = "days"
  /\ \E ok \in BOOLEAN :
       IF ~ok THEN SrCatch
       ELSE /\ srPoints' = Append(srPoints, DayPoint(srDay))
            /\ srDay' = srDay + 1
            /\ srStage' = IF srDay + 1 <= SeriesDays THEN "days" ELSE "clear"
  /\ SrFrame

\* The closing clearFilterAsync, then return dataPoints.
SR_Return ==
  /\ srStage = "clear"
  /\ \E ok \in BOOLEAN :
       IF ~ok THEN SrCatch
       ELSE /\ srStage' = "returned"
            /\ UNCHANGED << srPoints, srDay >>
  /\ SrFrame

InitSeries ==
  /\ OrchInit
  /\ LcIdle
  /\ CbIdle
  /\ DtIdle
  /\ UiIdle
  /\ srRows \in UNION {[1..n -> SeriesRows] : n \in 0..MaxRows}
  /\ srDateCol \in BOOLEAN
  /\ srMetricCol \in BOOLEAN
  /\ srStage = (IF rev = "main" THEN "days" ELSE "bulk")
  /\ srDay = (IF rev = "main" THEN 1 ELSE 0)
  /\ srPoints = << >>

NextSeries == SR_Bulk \/ SR_Day \/ SR_Return

SpecSeries == InitSeries /\ [][NextSeries]_vars

\* C16: a days-granularity series that was returned has exactly one point per
\* calendar day of the window, in ascending date order, a day without rows
\* carrying 0 - whichever strategy produced it.
C16_OnePointPerDay ==
  srStage = "returned" =>
    /\ Len(srPoints) = SeriesDays
    /\ \A d \in 1..SeriesDays :
         /\ srPoints[d].date = d
         /\ SumVals(SummaryData(srRows, d, d)) = 0 => srPoints[d].value = 0


\* ------------------------------------------- card building on its own
\* The part of refreshKPIs that turns the encodings and the rows of the three
\* windows into cards, over successive refreshes.  A row is the value of its
\* detail field; every row adds 1 to every metric.
MaxEncodings == 2

MaxWindowRows == 3

DetailValues == {"West", "East"}

EncodingEntries == [id : {"bars", "lines"}, field : {"Sales", "Profit"}]

WindowRows == UNION {[1..n -> DetailValues] : n \in 0..MaxWindowRows}

\* orderedMetrics: one {name, type} per bars or lines encoding, in order.
orderedMetrics(encodings) ==
  [k \in 1..Len(encodings) |->
     [name |-> encodings[k].field,
      type |-> IF encodings[k].id = "bars" THEN "bar" ELSE "line"]]

\* fetchDataForRange: the rows accumulated per detail key, as the sequence of
\* the Map's entries in insertion order; without detail fields one group
\* under the key "".
RECURSIVE groupedValues(_, _)
groupedValues(rows, groups) ==
  IF rows = << >> THEN groups
  ELSE LET at == {k \in 1..Len(groups) : groups[k].key = Head(rows)}
       IN  IF at = {}
           THEN groupedValues(Tail(rows),
                              Append(groups, [key |-> Head(rows), val |-> 1]))
           ELSE groupedValues(Tail(rows),
                              [groups EXCEPT ![CHOOSE k \in at : TRUE].val =
                                               @ + 1])

RangeResult(rows, detail) ==
  IF detail THEN groupedValues(rows, << >>)
  ELSE << [key |-> "", val |-> Len(rows)] >>

\* Array.from(groupedValues.keys()), also Object.keys(results.current).
KeysOf(groups) == [k \in 1..Len(groups) |-> groups[k].key]

\* results[range]?.[detailKey]?.[mName]?.val || 0
ValueOf(groups, key) ==
  LET at == {k \in 1..Len(groups) : groups[k].key = key}
  IN  IF at = {} THEN 0 ELSE groups[CHOOSE k \in at : TRUE].val

\* The keys in alphabetical order.
RECURSIVE Alphabetical(_)
Alphabetical(keys) ==
  IF keys = << >> THEN << >>
  ELSE IF \E k \in 1..Len(keys) : keys[k] = "East"
       THEN << "East" >> \o SelectSeq(keys, LAMBDA x : x # "East")
       ELSE keys

detailKeysSorted(keys, current) ==
  Alphabetical(IF Len(keys) > 0 THEN keys ELSE KeysOf(current))

\* const detailKeys = state.orderedDetailKeys && length > 0
\*   ? state.orderedDetailKeys : Object.keys(results.current || {})
detailKeys(keys, current) ==
  IF Len(keys) > 0 THEN keys ELSE KeysOf(current)

createCardData(metric, detailKey, results) ==
  [name |-> IF detailKey # "" THEN << metric.name, " - ", detailKey >>
            ELSE << metric.name >>,
   baseName |-> metric.name,
   detailKey |-> detailKey,
   chartType |-> metric.type,
   current |-> ValueOf(results.current, detailKey),
   reference |-> ValueOf(results.prevMonth, detailKey),
   prevYear |-> ValueOf(results.prevYear, detailKey)]

\* orderedMetrics.forEach(metric => detailKeys.forEach(detailKey => push)).
BuildCards(metrics, keys, results) ==
  [n \in 1..(Len(metrics) * Len(keys)) |->
     createCardData(metrics[((n - 1) \div Len(keys)) + 1],
                    keys[((n - 1) % Len(keys)) + 1], results)]

CbFrame == UNCHANGED << orchVars, lcVars, srVars, dtVars, uiVars >>

\* refreshKPIs reads the encodings.
CB_Spec ==
  /\ cbStage \in {"spec", "built"}
  /\ \E enc \in UNION {[1..n -> EncodingEntries] : n \in 1..MaxEncodings},
        detail \in BOOLEAN :
       /\ cbEnc' = orderedMetrics(enc)
       /\ cbDetail' = detail
  /\ cbStage' = "current"
  /\ cbRows' = << >>
  /\ cbResults' = << >>
  /\ cbCards' = << >>
  /\ UNCHANGED cbKeys
  /\ CbFrame

\* fetchDataForRange('current', ...): the rows are grouped and, with detail
\* fields, the group keys are stored in state.orderedDetailKeys.
CB_Current ==
  /\ cbStage = "current"
  /\ \E rows \in WindowRows :
       /\ cbRows' = rows
       /\ cbResults' = [current |-> RangeResult(rows, cbDetail)]
       /\ cbKeys' = IF cbDetail THEN KeysOf(RangeResult(rows, cbDetail))
                    ELSE cbKeys
  /\ cbStage' = "prevMonth"
  /\ UNCHANGED << cbEnc, cbDetail, cbCards >>
  /\ CbFrame

\* fetchDataForRange('prevMonth', ...).
CB_PrevMonth ==
  /\ cbStage = "prevMonth"
  /\ \E rows \in WindowRows :
       cbResults' = [current |-> cbResults.current,
                     prevMonth |-> RangeResult(rows, cbDetail)]
  /\ cbStage' = "prevYear"
  /\ UNCHANGED << cbEnc, cbDetail, cbRows, cbKeys, cbCards >>
  /\ CbFrame

\* fetchDataForRange('prevYear', ...), then the cards are built.
CB_PrevYear ==
  /\ cbStage = "prevYear"
  /\ \E rows \in WindowRows :
       LET results == [current |-> cbResults.current,
                       prevMonth |-> cbResults.prevMonth,
                       prevYear |-> RangeResult(rows, cbDetail)]
       IN  /\ cbResults' = results
           /\ cbCards' = BuildCards(cbEnc, detailKeys(cbKeys, results.current),
                                    results)
  /\ cbStage' = "built"
  /\ UNCHANGED << cbEnc, cbDetail, cbRows, cbKeys >>
  /\ CbFrame

InitCards ==
  /\ OrchInit
  /\ rev = "part_002"
  /\ LcIdle
  /\ SrIdle
  /\ DtIdle
  /\ UiIdle
  /\ cbEnc = << >>
  /\ cbDetail = FALSE
  /\ cbRows = << >>
  /\ cbResults = << >>
  /\ cbKeys = << >>
  /\ cbCards = << >>
  /\ cbStage = "spec"

NextCards == CB_Spec \/ CB_Current \/ CB_PrevMonth \/ CB_PrevYear

SpecCards == InitCards /\ [][NextCards]_vars

\* The distinct detail values of the rows, in the order of first appearance.
FirstAppearance(rows) ==
  LET vals == {rows[k] : k \in 1..Len(rows)}
      first(v) == CHOOSE k \in 1..Len(rows) :
                    rows[k] = v /\ \A j \in 1..(k - 1) : rows[j] # v
  IN  CHOOSE s \in [1..Cardinality(vals) -> vals] :
        \A i, j \in 1..Cardinality(vals) : i < j => first(s[i]) < first(s[j])

\* C17: a refresh builds exactly one card per bars/lines encoding entry per
\* detail group present in the current window, and exactly one ungrouped card
\* per entry when there is no detail grouping - whatever earlier refreshes did.
C17_OneCardPerEntryAndGroup ==
  cbStage = "built" =>
    IF cbDetail
    THEN Len(cbCards) = Len(cbEnc) * Len(FirstAppearance(cbRows))
    ELSE /\ Len(cbCards) = Len(cbEnc)
         /\ \A n \in 1..Len(cbCards) : cbCards[n].detailKey = ""

\* What identifies a card's place: metric, chart type and detail group.
CardPlaces == [n \in 1..Len(cbCards) |->
                 << cbCards[n].baseName, cbCards[n].chartType,
                    cbCards[n].detailKey >>]

\* C18: with detail grouping, the cards follow the declaration order of the
\* bars/lines encodings and, within one encoding entry, the order in which
\* the detail groups first appear in the raw rows of the current window -
\* whatever the rows of the prior-month and prior-year windows are.
C18_CardsInDeclarationAndFirstAppearanceOrder ==
  (cbStage = "built" /\ cbDetail) =>
    LET groups == FirstAppearance(cbRows)
    IN  /\ Len(cbCards) = Len(cbEnc) * Len(groups)
        /\ \A m \in 1..Len(cbEnc) : \A g \in 1..Len(groups) :
             CardPlaces[(m - 1) * Len(groups) + g] =
               << cbEnc[m].name, cbEnc[m].type, groups[g] >>

\* Rows West, East, West in the current window, East first in the prior-month
\* window, two encoding entries: four cards, West before East for each entry
\* although East sorts first and the groups differ in size.
C18_Witness ==
  /\ cbStage = "built"
  /\ cbDetail
  /\ cbRows = << "West", "East", "West" >>
  /\ KeysOf(cbResults.prevMonth) = << "East", "West" >>
  /\ Len(cbEnc) = 2
  /\ cbEnc[1] = [name |-> "Sales", type |-> "line"]
  /\ cbEnc[2] = [name |-> "Sales", type |-> "bar"]
  /\ CardPlaces = << << "Sales", "line", "West" >>, << "Sales", "line", "East" >>,
                     << "Sales", "bar", "West" >>, << "Sales", "bar", "East" >> >>
  /\ cbCards[1].current = 2
  /\ cbCards[2].current = 1


\* ------------------------------------------ the range calculator on its own
\* Dates are day numbers counted from 0000-01-01 (proleptic Gregorian, UTC);
\* months are numbered 0..11 as in Date.  A window's start is the beginning
\* of its start day and its end the last millisecond of its end day, which
\* the month and year shifts keep, so start <= end compares the day numbers.
\* The local-time setters of getRange are taken in a UTC time zone.
AnchorYears == {2023, 2024}

AnchorDays == {1, 2, 3, 15, 28, 29, 30, 31}

RollingCounts == {1, 2, 3, 4, 12}

DaysInMonth(y, m) ==
  LET leap == (y % 4 = 0 /\ y % 100 # 0) \/ y % 400 = 0
  IN  IF m = 1 THEN (IF leap THEN 29 ELSE 28)
      ELSE IF m \in {3, 5, 8, 10} THEN 30 ELSE 31

DaysBeforeYear(y) ==
  365 * y + ((y + 3) \div 4) - ((y + 99) \div 100) + ((y + 399) \div 400)

RECURSIVE DaysBeforeMonth(_, _)
DaysBeforeMonth(y, m) ==
  IF m = 0 THEN 0 ELSE DaysBeforeMonth(y, m - 1) + DaysInMonth(y, m - 1)

\* Date.UTC(year, month, day): a month outside 0..11 carries into the year, a
\* day outside the month carries into the neighbouring months.
DateUTC(y, m, d) ==
  LET yy == y + (m \div 12)
      mm == m % 12
  IN  DaysBeforeYear(yy) + DaysBeforeMonth(yy, mm) + d - 1

getUTCFullYear(n) ==
  CHOOSE y \in (n \div 366)..(n \div 365) :
    DaysBeforeYear(y) <= n /\ n < DaysBeforeYear(y + 1)

getUTCMonth(n) ==
  LET y == getUTCFullYear(n)
      r == n - DaysBeforeYear(y)
  IN  CHOOSE m \in 0..11 :
        DaysBeforeMonth(y, m) <= r /\ r < DaysBeforeMonth(y, m) + DaysInMonth(y, m)

getUTCDate(n) ==
  n - DateUTC(getUTCFullYear(n), getUTCMonth(n), 1) + 1

\* 0 is Sunday.
getUTCDay(n) == (n + 6) % 7

\* setMonth(month): month replaced, day of the month kept, overflow carried.
setMonth(n, m) == DateUTC(getUTCFullYear(n), m, getUTCDate(n))

\* setDate(day).
setDate(n, d) == DateUTC(getUTCFullYear(n), getUTCMonth(n), d)

\* setFullYear(year).
setFullYear(n, y) == DateUTC(y, getUTCMonth(n), getUTCDate(n))

\* getRange(period, anchorDate) under state.granularity, state.weekStart and
\* state.rollingCount.
getRangeDates(spec, anchor) ==
  LET year == anchor.y
      month == anchor.m
      day == anchor.d
      end == DateUTC(year, month, day)
      count == spec.count
      back == IF spec.granularity = "days" THEN end - (count - 1)
              ELSE end - ((count - 1) * 7)
      wkStart == IF spec.weekStart = "sunday" THEN 0 ELSE 1
      daysToWeekStart == (getUTCDay(back) - wkStart + 7) % 7
      monthsBack == setMonth(end, getUTCMonth(end) - (count - 1))
      quartersBack == setMonth(end, getUTCMonth(end) - ((count - 1) * 3))
      yearsBack == setFullYear(end, getUTCFullYear(end) - (count - 1))
      start ==
        CASE spec.period = "mtd" -> DateUTC(year, month, 1)
          [] spec.period = "qtd" -> DateUTC(year, (month \div 3) * 3, 1)
          [] spec.period = "ytd" -> DateUTC(year, 0, 1)
          [] spec.period = "rolling" /\ spec.granularity = "days" -> back
          [] spec.period = "rolling" /\ spec.granularity = "weeks" ->
               back - daysToWeekStart
          [] spec.period = "rolling" /\ spec.granularity = "months" ->
               setDate(monthsBack, 1)
          [] spec.period = "rolling" /\ spec.granularity = "quarters" ->
               setDate(setMonth(quartersBack,
                                (getUTCMonth(quartersBack) \div 3) * 3), 1)
          [] spec.period = "rolling" /\ spec.granularity = "years" ->
               setDate(setMonth(yearsBack, 0), 1)
  IN  [start |-> start, end |-> end]

\* One bound of getPrevMonthRange: setUTCMonth(getUTCMonth() - 1).
PrevMonth(n) == setMonth(n, getUTCMonth(n) - 1)

getPrevMonthRange(range) ==
  [start |-> PrevMonth(range.start), end |-> PrevMonth(range.end)]

\* One bound of getPrevYearRange: setUTCFullYear(getUTCFullYear() - 1).
PrevYear(n) == setFullYear(n, getUTCFullYear(n) - 1)

getPrevYearRange(range) ==
  [start |-> PrevYear(range.start), end |-> PrevYear(range.end)]

\* The PeriodSpecs the selector offers (granularityConfig), with the rolling
\* counts under study.
PeriodSpecs ==
  {[period |-> p, granularity |-> "-", weekStart |-> "-", count |-> 0] :
     p \in {"mtd", "qtd", "ytd"}}
  \cup [period : {"rolling"},
        granularity : {"days", "months", "quarters", "years"},
        weekStart : {"-"}, count : RollingCounts]
  \cup [period : {"rolling"}, granularity : {"weeks"},
        weekStart : {"monday", "sunday"}, count : RollingCounts]

Anchors ==
  {a \in [y : AnchorYears, m : 0..11, d : AnchorDays] :
     a.d <= DaysInMonth(a.y, a.m)}

DtFrame ==
  UNCHANGED << orchVars, lcVars, srVars, cbVars, uiVars, dtAnchor, dtSpec >>

\* periods.current
DT_Current ==
  /\ dtStage = "current"
  /\ dtPeriods' = [current |-> getRangeDates(dtSpec, dtAnchor)]
  /\ dtStage' = "prevMonth"
  /\ DtFrame

\* periods.prevMonth
DT_PrevMonth ==
  /\ dtStage = "prevMonth"
  /\ dtPeriods' =
       [current |-> dtPeriods.current,
        prevMonth |-> getPrevMonthRange(getRangeDates(dtSpec, dtAnchor))]
  /\ dtStage' = "prevYear"
  /\ DtFrame

\* periods.prevYear
DT_PrevYear ==
  /\ dtStage = "prevYear"
  /\ dtPeriods' =
       [current |-> dtPeriods.current,
        prevMonth |-> dtPeriods.prevMonth,
        prevYear |-> getPrevYearRange(getRangeDates(dtSpec, dtAnchor))]
  /\ dtStage' = "done"
  /\ DtFrame

InitDates ==
  /\ OrchInit
  /\ rev = "part_002"
  /\ LcIdle
  /\ SrIdle
  /\ CbIdle
  /\ UiIdle
  /\ dtAnchor \in Anchors
  /\ dtSpec \in PeriodSpecs
  /\ dtPeriods = << >>
  /\ dtStage = "current"

NextDates == DT_Current \/ DT_PrevMonth \/ DT_PrevYear

SpecDates == InitDates /\ [][NextDates]_vars

\* C19: every window of the periods object has start <= end.
C19_WindowsWellOrdered ==
  /\ dtStage \in {"prevMonth", "prevYear", "done"} =>
       dtPeriods.current.start <= dtPeriods.current.end
  /\ dtStage \in {"prevYear", "done"} =>
       dtPeriods.prevMonth.start <= dtPeriods.prevMonth.end
  /\ dtStage = "done" =>
       dtPeriods.prevYear.start <= dtPeriods.prevYear.end

\* The date one calendar month before n, on the last day of that month when
\* the day of n does not exist in it.
ClampedPrevMonth(n) ==
  LET first == DateUTC(getUTCFullYear(n), getUTCMonth(n) - 1, 1)
      last == DaysInMonth(getUTCFullYear(first), getUTCMonth(first))
  IN  first + (IF getUTCDate(n) <= last THEN getUTCDate(n) ELSE last) - 1

\* C20: each bound of the prior-month window is the corresponding bound of
\* the current window moved one calendar month back: a date of the preceding
\* month, on that month's last day when the day does not exist in it.
C20_PriorMonthStaysInPrecedingMonth ==
  dtStage \in {"prevYear", "done"} =>
    /\ dtPeriods.prevMonth.start = ClampedPrevMonth(dtPeriods.current.start)
    /\ dtPeriods.prevMonth.end = ClampedPrevMonth(dtPeriods.current.end)

\* C30: at any time at most one data-change subscription is registered with
\* the host, and state.unregisterDataHandler is non-null exactly when one is.
C30_AtMostOneSubscription ==
  /\ hostListeners \in {0, 1}
  /\ unregisterDataHandler <=> hostListeners = 1

\* A second refresh is under way, after a request was dropped or an edit or a
\* notification came in, with the subscription taken down.
C30_Witness ==
  /\ nRefresh = 2
  /\ nEvents > 0
  /\ rpc \notin {"idle", "boot"}
  /\ hostListeners = 0
  /\ ~unregisterDataHandler

\* C27: a card one of whose series fetches failed gets no cache entry: the
\* entry is written only when both the reference and the current fetch
\* succeeded.
C27_NoEntryAfterFailedFetch ==
  \A i \in 1..Len(lcCards) :
    (\E k \in 1..Len(lcLog) :
       lcLog[k].card = i /\ lcLog[k].ev = "fetch failed")
    => ~(\E k \in 1..Len(lcLog) : lcLog[k].card = i /\ lcLog[k].ev = "write")

\* C25: when the series loading started by a refresh serves a card from the
\* cache, the cached series were bucketed with the granularity now selected
\* (the model's totals already tell windows, rolling count and week start
\* apart).
C25_CacheHitHasSameGranularity ==
  [][(rpc = "clear" /\ rpc' = "hash_spec") =>
       \A i \in Cards :
         LET cached == chartCache[<< i, selectedPeriod >>]
         IN  (cached # NoEntry /\ cached.tot = rtot) =>
               cached.gran = granularity]_vars

\* C26: the series loading of an earlier refresh never draws its series into,
\* nor caches them for, the cards of a later refresh that was made for other
\* windows: once the cards of a later refresh are displayed, a loading of an
\* earlier refresh that finishes a card holds series of the displayed windows.
C26_NoSeriesOfEarlierRefreshInLaterCards ==
  [][\A l \in 1..MaxRefresh :
       (/\ rev = "part_002"
        /\ l < nRefresh
        /\ shown # NoCards
        /\ loaders[l].which = "cur"
        /\ loaders'[l] # loaders[l]
        /\ loaders'[l].which # "cur")
       => loaders[l].per = shown]_vars


\* ------------------------------------------- computeStateHash on its own
\* A string is the sequence of its tokens; strings compare token by token in
\* the order of TokenOrder (the alphabet's order on these tokens).
TokenOrder ==
  << "East", "Profit", "Region", "Sales", "West", "Year", "categorical",
     "range" >>

Rank(t) == CHOOSE k \in 1..Len(TokenOrder) : TokenOrder[k] = t

RECURSIVE StringLeq(_, _)
StringLeq(a, b) ==
  IF a = << >> THEN TRUE
  ELSE IF b = << >> THEN FALSE
  ELSE IF Head(a) = Head(b) THEN StringLeq(Tail(a), Tail(b))
  ELSE Rank(Head(a)) < Rank(Head(b))

sortNot(strings) == strings

\* Array.prototype.sort() without a comparator.
RECURSIVE sort(_)
sort(strings) ==
  IF strings = << >> THEN << >>
  ELSE LET m == CHOOSE k \in 1..Len(strings) :
                  \A j \in 1..Len(strings) : StringLeq(strings[k], strings[j])
       IN  << strings[m] >> \o
           sort([k \in 1..(Len(strings) - 1) |->
                   IF k < m THEN strings[k] ELSE strings[k + 1]])

\* join: the strings one after the other.
RECURSIVE join(_)
join(strings) ==
  IF strings = << >> THEN << >> ELSE Head(strings) \o join(Tail(strings))

\* `${f.fieldName}:${f.filterType}` followed by the range or by the sorted
\* applied values.
filterStr(f) ==
  << f.fieldName, f.filterType >> \o
  (IF f.filterType = "range" THEN << "range" >>
   ELSE join(sort([k \in 1..Len(f.appliedValues) |->
                     << f.appliedValues[k] >>])))

\* computeStateHash, both host calls resolving: the parts of the hash that
\* depend on the tooltip encodings, the filters and the selected period.
computeStateHash(tooltip, filters) ==
  [tooltip |-> sort([k \in 1..Len(tooltip) |-> << tooltip[k] >>]),
   filters |-> sort([k \in 1..Len(filters) |-> filterStr(filters[k])]),
   period |-> selectedPeriod]

\* The orders in which the host may list the elements of a set.
Listings(S) ==
  {q \in UNION {[1..n -> S] : n \in {Cardinality(S)}} :
     \A i, j \in 1..Cardinality(S) : i # j => q[i] # q[j]}

\* The filters of a worksheet, each with its applied values in some order.
HostFilters ==
  LET region(vals) == [fieldName |-> "Region", filterType |-> "categorical",
                       appliedValues |-> vals]
      year == [fieldName |-> "Year", filterType |-> "range",
               appliedValues |-> << >>]
      regions == {region(v) : v \in UNION {Listings(V) :
                                 V \in SUBSET {"East", "West"} \ {{}}}}
  IN  {<< >>, << year >>} \cup {<< r >> : r \in regions}
      \cup {<< r, year >> : r \in regions} \cup {<< year, r >> : r \in regions}

\* The same filters listed again by the host, in any order.
Relisted(filters) ==
  {g \in HostFilters :
     /\ Len(g) = Len(filters)
     /\ \A k \in 1..Len(filters) : \E j \in 1..Len(g) :
          /\ g[j].fieldName = filters[k].fieldName
          /\ {g[j].appliedValues[i] : i \in 1..Len(g[j].appliedValues)} =
             {filters[k].appliedValues[i] :
                i \in 1..Len(filters[k].appliedValues)}}

HsFrame ==
  UNCHANGED << orchVars, lcVars, srVars, cbVars, dtVars, ttVars, brVars >>

\* computeStateHash is called and returns.
HS_Compute ==
  /\ hsHash' = computeStateHash(hsTooltip, hsFilters)
  /\ hsSeen' = hsSeen \cup {<< hsTooltip, hsFilters >>}
  /\ UNCHANGED << hsTooltip, hsFilters >>
  /\ HsFrame

\* The host lists the same encodings and filters in another order.
HS_Relist ==
  /\ hsTooltip' \in Listings({hsTooltip[k] : k \in 1..Len(hsTooltip)})
  /\ hsFilters' \in Relisted(hsFilters)
  /\ UNCHANGED << hsHash, hsSeen >>
  /\ HsFrame

InitHash ==
  /\ OrchInit
  /\ rev = "part_002"
  /\ LcIdle /\ SrIdle /\ CbIdle /\ DtIdle /\ TtIdle /\ BrIdle
  /\ hsTooltip \in UNION {Listings(T) : T \in SUBSET {"Profit", "Sales"}}
  /\ hsFilters \in HostFilters
  /\ hsHash = NoHash
  /\ hsSeen = {}

NextHash == HS_Compute \/ HS_Relist

SpecHash == InitHash /\ [][NextHash]_vars

\* C24: for the same encodings, filters and period, computeStateHash returns
\* the same value whatever the order in which the host lists the filters, the
\* applied values of a filter or the tooltip fields.
C24_HashIgnoresListingOrder ==
  [][(hsHash # NoHash => hsHash' = hsHash)]_vars

\* The hash was computed from more than two different listings of the same
\* configuration with two tooltip fields and two filters.
C24_Witness ==
  /\ Cardinality(hsSeen) > 2
  /\ Len(hsTooltip) = 2
  /\ Len(hsFilters) = 2
  /\ hsHash = computeStateHash(hsTooltip, hsFilters)

----------------------------------------------------------------------------
\* The tooltip values of a bucket.  fetchAggregatedChartData (one bucket per
\* period) and fetchBarChartData (one bucket per day) run the same loop over
\* the rows of a bucket for every tooltip field; the study follows one field
\* of one bucket.

MaxBucketRows == 3

\* nativeValue of a cell: a number, a string, or null.
Num(n)  == [t |-> "num", n |-> n]
Str(x)  == [t |-> "str", s |-> x]
Null    == [t |-> "null"]
NativeValues == {Num(1), Num(2), Str("East"), Str("West"), Null}

\* formattedValue of a cell; the host formats null as the empty string.
formattedValue(v) ==
  CASE v.t = "num" -> IF v.n = 1 THEN "1" ELSE "2"
    [] v.t = "str" -> v.s
    [] OTHER       -> ""

\* String(n) for the numbers a sum of MaxBucketRows cells can take.
NumberToString(n) ==
  CASE n = 0 -> "0" [] n = 1 -> "1" [] n = 2 -> "2" [] n = 3 -> "3"
    [] n = 4 -> "4" [] n = 5 -> "5" [] OTHER -> "6"

\* tv.val += tVal for a number tVal: addition on a number, concatenation on
\* a string (a string is kept as the sequence of its pieces).
PlusAssign(val, n) ==
  CASE val.t = "num" -> Num(val.n + n)
    [] val.t = "str" -> [t |-> "cat", s |-> << val.s, NumberToString(n) >>]
    [] val.t = "cat" -> [t |-> "cat", s |-> Append(val.s, NumberToString(n))]
    [] OTHER         -> Num(n)

\* The body of tooltipIndices.forEach for one row.
\*   fetchAggregatedChartData: if number { if val===null val=0; val+=tVal }
\*                             else { val = tVal }
\*   fetchBarChartData:        if number { ... }
\*                             else if (tVal !== undefined && tVal !== null)
\*                               { val = tVal }
aggregate(path, val, tVal) ==
  IF tVal.t = "num"
  THEN PlusAssign(IF val.t = "null" THEN Num(0) ELSE val, tVal.n)
  ELSE IF path = "fetchAggregatedChartData" THEN tVal
       ELSE IF tVal.t # "null" THEN tVal ELSE val

TtPaths == {"fetchAggregatedChartData", "fetchBarChartData"}

TtRowSets ==
  UNION {[1..n -> NativeValues] : n \in 1..MaxBucketRows}

\* One row of the bucket is aggregated.
TT_Row ==
  /\ ttPath \in TtPaths
  /\ ttI < Len(ttRows)
  /\ ttI' = ttI + 1
  /\ ttVal' = aggregate(ttPath, ttVal, ttRows[ttI + 1])
  /\ ttFmt' = IF ttFmt = "" /\ formattedValue(ttRows[ttI + 1]) # ""
              THEN formattedValue(ttRows[ttI + 1]) ELSE ttFmt
  /\ UNCHANGED << ttPath, ttRows >>
  /\ UNCHANGED << orchVars, lcVars, srVars, cbVars, dtVars, hsVars, brVars >>

\* The next bucket: tooltipInit = { val: null, fmt: '' } and other rows.
TT_Bucket ==
  /\ ttPath \in TtPaths
  /\ ttI = Len(ttRows)
  /\ ttRows' \in TtRowSets
  /\ ttI' = 0
  /\ ttVal' = Null
  /\ ttFmt' = ""
  /\ UNCHANGED ttPath
  /\ UNCHANGED << orchVars, lcVars, srVars, cbVars, dtVars, hsVars, brVars >>

InitTooltip ==
  /\ OrchInit
  /\ rev = "part_002"
  /\ LcIdle /\ SrIdle /\ CbIdle /\ DtIdle /\ HsIdle /\ BrIdle
  /\ ttPath \in TtPaths
  /\ ttRows \in TtRowSets
  /\ ttI = 0
  /\ ttVal = Null
  /\ ttFmt = ""

NextTooltip == TT_Row \/ TT_Bucket

SpecTooltip == InitTooltip /\ [][NextTooltip]_vars

\* The rows of the bucket aggregated so far, and those with a value.
TtSeen == SubSeq(ttRows, 1, ttI)

RECURSIVE SumNum(_)
SumNum(rows) ==
  IF rows = << >> THEN 0
  ELSE (IF Head(rows).t = "num" THEN Head(rows).n ELSE 0) + SumNum(Tail(rows))

RECURSIVE FirstNonNull(_)
FirstNonNull(rows) ==
  IF rows = << >> THEN Null
  ELSE IF Head(rows).t # "null" THEN Head(rows) ELSE FirstNonNull(Tail(rows))

\* C29: within a bucket, a tooltip field whose values are numbers holds
\* their sum, and a tooltip field whose values are not numbers holds the
\* first non-null value seen; later rows never replace it.
C29_SumOrFirstNonNull ==
  (ttPath \in TtPaths /\ ttI > 0) =>
    /\ (\A k \in 1..ttI : ttRows[k].t = "num") => ttVal = Num(SumNum(TtSeen))
    /\ (\A k \in 1..ttI : ttRows[k].t # "num") => ttVal = FirstNonNull(TtSeen)

----------------------------------------------------------------------------
\* generatePeriods on its own: fetchAggregatedChartData calls it with the
\* window of the reference period and then with the window of the current
\* period, under state.granularity and state.weekStart.  Dates are day
\* numbers as in the range calculator; a bucket's start is the beginning of
\* its day and its end the last millisecond of its day.

\* granularityConfig without 'days', which never reaches generatePeriods.
BucketGranularities(period) ==
  CASE period = "mtd" -> {"weeks"}
    [] period = "qtd" -> {"weeks", "months"}
    [] period = "ytd" -> {"months", "quarters"}
    [] OTHER          -> {"weeks", "months", "quarters", "years"}

BucketSpecs ==
  {s \in [period : {"mtd", "qtd", "ytd", "rolling"},
          granularity : {"weeks", "months", "quarters", "years"},
          weekStart : {"monday", "sunday"},
          count : RollingCounts] :
     /\ s.granularity \in BucketGranularities(s.period)
     /\ s.period # "rolling" => s.count = 1
     /\ s.granularity # "weeks" => s.weekStart = "monday"}

\* The while loop of generatePeriods from the value of current on.
RECURSIVE generatePeriodsFrom(_, _, _, _, _)
generatePeriodsFrom(current, endDate, gran, wkStart, periods) ==
  IF ~(current <= endDate) THEN periods
  ELSE
    LET daysToWeekStart == (getUTCDay(current) - wkStart + 7) % 7
        quarterStart == (getUTCMonth(current) \div 3) * 3
        periodStart ==
          CASE gran = "weeks"    -> current - daysToWeekStart
            [] gran = "months"   -> setDate(current, 1)
            [] gran = "quarters" -> setDate(setMonth(current, quarterStart), 1)
            [] gran = "years"    -> setDate(setMonth(current, 0), 1)
        periodEnd ==
          CASE gran = "weeks"    -> periodStart + 6
            [] gran = "months"   ->
                 setDate(setMonth(periodStart, getUTCMonth(periodStart) + 1), 0)
            [] gran = "quarters" ->
                 setDate(setMonth(periodStart, getUTCMonth(periodStart) + 3), 0)
            [] gran = "years"    ->
                 setDate(setFullYear(periodStart,
                                     getUTCFullYear(periodStart) + 1), 0)
        next ==
          CASE gran = "weeks"    -> periodEnd + 1
            [] gran = "months"   ->
                 setMonth(periodStart, getUTCMonth(periodStart) + 1)
            [] gran = "quarters" ->
                 setMonth(periodStart, getUTCMonth(periodStart) + 3)
            [] gran = "years"    ->
                 setFullYear(periodStart, getUTCFullYear(periodStart) + 1)
        clipped == IF periodEnd > endDate THEN endDate ELSE periodEnd
        pushed == Append(periods, [start |-> periodStart, end |-> clipped])
    IN  \* periodStart >= endDate: the beginning of a day against the last
        \* millisecond of a day
        IF periodStart > endDate THEN pushed
        ELSE generatePeriodsFrom(next, endDate, gran, wkStart, pushed)

generatePeriods(startDate, endDate, gran, wkStart) ==
  generatePeriodsFrom(startDate, endDate, gran, wkStart, << >>)

\* generatePeriods(range.start, range.end, granularity)
BucketsOf(range) ==
  [range |-> range,
   periods |-> generatePeriods(range.start, range.end, dtSpec.granularity,
                               IF dtSpec.weekStart = "sunday" THEN 0 ELSE 1)]

\* fetchAggregatedChartData for periods.prevMonth
BK_Reference ==
  /\ dtStage = "bucketsReference"
  /\ dtPeriods' = BucketsOf(getPrevMonthRange(getRangeDates(dtSpec, dtAnchor)))
  /\ dtStage' = "bucketsCurrent"
  /\ DtFrame

\* fetchAggregatedChartData for periods.current
BK_Current ==
  /\ dtStage = "bucketsCurrent"
  /\ dtPeriods' = BucketsOf(getRangeDates(dtSpec, dtAnchor))
  /\ dtStage' = "bucketsDone"
  /\ DtFrame

InitBuckets ==
  /\ OrchInit
  /\ rev = "part_002"
  /\ LcIdle /\ SrIdle /\ CbIdle /\ UiIdle
  /\ dtAnchor \in Anchors
  /\ dtSpec \in BucketSpecs
  /\ dtPeriods = << >>
  /\ dtStage = "bucketsReference"

NextBuckets == BK_Reference \/ BK_Current

SpecBuckets == InitBuckets /\ [][NextBuckets]_vars

\* C28: for weeks, months, quarters and years, the buckets of a window are in
\* ascending order and do not overlap, each bucket has start <= end, the
\* first bucket does not start before the window's start, and the last
\* bucket's end is the window's end.
C28_BucketsPartitionWindow ==
  (dtStage \in {"bucketsCurrent", "bucketsDone"}
     /\ dtPeriods.range.start <= dtPeriods.range.end) =>
    LET w == dtPeriods.range
        b == dtPeriods.periods
    IN  /\ Len(b) > 0
        /\ \A k \in 1..Len(b) : b[k].start <= b[k].end
        /\ \A k \in 1..(Len(b) - 1) : b[k].end < b[k + 1].start
        /\ b[1].start >= w.start
        /\ b[Len(b)].end = w.end

\* The part of C28 that is about everything but the first bucket's start.
C28_AscendingDisjointEndingAtWindowEnd ==
  (dtStage \in {"bucketsCurrent", "bucketsDone"}
     /\ dtPeriods.range.start <= dtPeriods.range.end) =>
    LET w == dtPeriods.range
        b == dtPeriods.periods
    IN  /\ Len(b) > 0
        /\ \A k \in 1..Len(b) : b[k].start <= b[k].end
        /\ \A k \in 1..(Len(b) - 1) : b[k].end < b[k + 1].start
        /\ b[Len(b)].end = w.end

----------------------------------------------------------------------------
\* The interaction layer of one chart.  In main.js renderBarChart and
\* renderLineChart both call setupBrushInteraction; in part_002 only
\* renderLineChart does, and renderBarChart calls attachBarHoverInteraction.
\* Horizontal positions are the points 0..ChartWidth of the plot area: bar i
\* (counted from 0) covers [2i, 2i+2) with its centre at 2i+1, and the points
\* of a line chart lie at 0, 3 and 6.

ChartWidth == 6
NoSelection == << >>

\* d3.sum over a sequence of numbers
RECURSIVE d3sum(_)
d3sum(values) ==
  IF values = << >> THEN 0 ELSE Head(values) + d3sum(Tail(values))

\* pct.toFixed(1) of the quotient n / d, in tenths.
toFixed1(n, d) ==
  LET an == IF n < 0 THEN 0 - n ELSE n
      t == (20 * an + d) \div (2 * d)
  IN  IF n < 0 THEN 0 - t ELSE t

\* refData[i]?.value || 0 (i counted from 0)
refValueOrZero(refData, i) == IF i + 1 <= Len(refData) THEN refData[i + 1] ELSE 0

\* colorClass of generateBarTooltipContent and updateAggregatedTooltip;
\* diff is NaN when the reference value is undefined.
colorClass(diff, nan, isUnfavorable) ==
  IF isUnfavorable
  THEN (IF ~nan /\ diff >= 0 THEN "negative" ELSE "positive")
  ELSE (IF ~nan /\ diff >= 0 THEN "positive" ELSE "negative")

\* The fill of current bar i in renderBarChart.
barFill(chart, i) ==
  LET refVal == refValueOrZero(chart.ref, i)
      isGrowth == chart.cur[i + 1] > refVal
      isGood == IF chart.unfav THEN ~isGrowth ELSE isGrowth
  IN  IF isGood THEN "#4f46e5" ELSE "#ef4444"

\* generateBarTooltipContent(date, currentVal, refVal, ...); undef says that
\* refVal is undefined.
generateBarTooltipContent(i, currentVal, refVal, undef, isUnfavorable) ==
  LET diff == currentVal - refVal
      pct == IF refVal # 0 THEN toFixed1(diff * 100, refVal) ELSE 0
  IN  [kind |-> "point", index |-> i, count |-> 1,
       current |-> currentVal, reference |-> refVal, nan |-> undef,
       diff |-> diff, pct |-> pct,
       colorClass |-> colorClass(diff, undef, isUnfavorable)]

\* sumRef of updateAggregatedTooltip over the whole reference series.
sumRefAll(selectedIndices, refData) == d3sum(refData)

\* sumRef of updateAggregatedTooltip
sumRef(selectedIndices, refData) ==
  d3sum([k \in 1..Len(selectedIndices) |->
           refValueOrZero(refData, selectedIndices[k])])

updateAggregatedTooltip(selectedData, selectedIndices, refData, isUnfavorable) ==
  LET sumCurrent == d3sum(selectedData)
      sRef == sumRef(selectedIndices, refData)
      diff == sumCurrent - sRef
      pct == IF sRef # 0 THEN toFixed1(diff * 100, sRef) ELSE 0
  IN  [kind |-> "selected", index |-> selectedIndices[1],
       count |-> Len(selectedData),
       current |-> sumCurrent, reference |-> sRef, nan |-> FALSE,
       diff |-> diff, pct |-> pct,
       colorClass |-> colorClass(diff, FALSE, isUnfavorable)]

\* Position of data point i on the x scale: the centre of the band of a bar
\* chart, x(d.date) of a line chart.
pointPosition(chart, i) == IF chart.type = "bar" THEN 2 * i + 1 ELSE 3 * i

\* selectedIndices of brushed, in the order of data.forEach
RECURSIVE selectedFrom(_, _, _)
selectedFrom(chart, selection, i) ==
  IF i >= Len(chart.cur) THEN << >>
  ELSE LET rest == selectedFrom(chart, selection, i + 1)
       IN  IF /\ pointPosition(chart, i) >= selection[1]
              /\ pointPosition(chart, i) <= selection[2]
           THEN << i >> \o rest ELSE rest

\* highlightSelection(indices): only a bar chart has elements to mark.
highlightSelection(chart, indices) ==
  IF chart.type = "bar" THEN {indices[k] : k \in 1..Len(indices)} ELSE {}

\* brushed(event): the tooltip and the highlighted bars after the event.
brushed(chart, selection) ==
  IF selection # NoSelection
  THEN LET selectedIndices == selectedFrom(chart, selection, 0)
           selectedData == [k \in 1..Len(selectedIndices) |->
                              chart.cur[selectedIndices[k] + 1]]
       IN  [hi |-> highlightSelection(chart, selectedIndices),
            tip |-> IF Len(selectedData) > 0
                    THEN updateAggregatedTooltip(selectedData, selectedIndices,
                                                 chart.ref, chart.unfav)
                    ELSE [kind |-> "hidden"]]
  ELSE [hi |-> {}, tip |-> [kind |-> "hidden"]]

\* d3.brushSelection(this.parentNode) taken as always null.
brushSelectionNull(selection) == FALSE

\* d3.brushSelection(this.parentNode) as a condition
brushSelection(selection) == selection # NoSelection

\* index of handleHover(mx): the band under the pointer, or the closest point.
hoverIndex(chart, mx) ==
  IF chart.type = "bar"
  THEN (IF mx \div 2 < Len(chart.cur) THEN mx \div 2 ELSE -1)
  ELSE (mx + 1) \div 3

\* handleHover(mx)
handleHover(chart, mx, tip, hi) ==
  LET index == hoverIndex(chart, mx)
      undef == index + 1 > Len(chart.ref)
      refVal == IF undef THEN 0 ELSE chart.ref[index + 1]
  IN  IF index # -1 /\ index < Len(chart.cur)
      THEN [tip |-> generateBarTooltipContent(index, chart.cur[index + 1],
                                              refVal, undef, chart.unfav),
            hi |-> highlightSelection(chart, << index >>)]
      ELSE [tip |-> tip, hi |-> hi]

hasBrush(chart) == chart.rev = "main" \/ chart.type = "line"

BrFrame ==
  UNCHANGED << orchVars, lcVars, srVars, cbVars, dtVars, hsVars, ttVars,
               brChart >>

\* 'start' and 'brush' events of the brush: the selection becomes [x0, x1].
BR_Brush ==
  /\ hasBrush(brChart)
  /\ \E x0 \in 0..ChartWidth : \E x1 \in x0..ChartWidth :
       /\ brSel' = << x0, x1 >>
       /\ brTip' = brushed(brChart, << x0, x1 >>).tip
       /\ brHi' = brushed(brChart, << x0, x1 >>).hi
  /\ brLast' = "brush"
  /\ BrFrame

\* 'end' event of the brush: d3 clears a selection that is empty.
BR_End ==
  /\ hasBrush(brChart)
  /\ brSel # NoSelection
  /\ brSel' = IF brSel[1] = brSel[2] THEN NoSelection ELSE brSel
  /\ brTip' = brushed(brChart, brSel').tip
  /\ brHi' = brushed(brChart, brSel').hi
  /\ brLast' = "end"
  /\ BrFrame

\* mousemove on the overlay of the brush
BR_MouseMove ==
  /\ hasBrush(brChart)
  /\ \E mx \in 0..ChartWidth :
       IF brushSelection(brSel)
       THEN UNCHANGED << brTip, brHi >>
       ELSE /\ brTip' = handleHover(brChart, mx, brTip, brHi).tip
            /\ brHi' = handleHover(brChart, mx, brTip, brHi).hi
  /\ brLast' = "mousemove"
  /\ UNCHANGED brSel
  /\ BrFrame

\* mouseleave on the overlay of the brush: clearHover()
BR_MouseLeave ==
  /\ hasBrush(brChart)
  /\ IF brushSelection(brSel)
     THEN UNCHANGED << brTip, brHi >>
     ELSE /\ brTip' = [kind |-> "hidden"]
          /\ brHi' = {}
  /\ brLast' = "mouseleave"
  /\ UNCHANGED brSel
  /\ BrFrame

\* mouseenter on a bar, attachBarHoverInteraction
BR_BarEnter ==
  /\ ~hasBrush(brChart)
  /\ \E i \in 0..(Len(brChart.cur) - 1) :
       /\ brTip' = generateBarTooltipContent(i, brChart.cur[i + 1],
                     refValueOrZero(brChart.ref, i), FALSE, brChart.unfav)
       /\ brHi' = brHi \cup {i}
  /\ brLast' = "mouseenter"
  /\ UNCHANGED brSel
  /\ BrFrame

\* mouseleave on a bar, attachBarHoverInteraction
BR_BarLeave ==
  /\ ~hasBrush(brChart)
  /\ \E i \in 0..(Len(brChart.cur) - 1) :
       /\ brTip' = [kind |-> "hidden"]
       /\ brHi' = brHi \ {i}
  /\ brLast' = "mouseleave"
  /\ UNCHANGED brSel
  /\ BrFrame

\* The series a chart is rendered with: current values and reference values,
\* the reference possibly shorter than the current series.
CurrentSeries ==
  {<< 10, 20, 30 >>, << 30, 20, 10 >>, << 20, 20, 20 >>, << 5, 15, 50 >>}

ReferenceSeries ==
  {<< 5, 15, 45 >>, << 5, 15 >>, << 0, 0, 20 >>, << 10, 20, 30 >>, << >>}

\* The chart after renderBarChart or renderLineChart with current data.
InitBrush ==
  /\ OrchInit
  /\ rev = "part_002"
  /\ LcIdle /\ SrIdle /\ CbIdle /\ DtIdle /\ HsIdle /\ TtIdle
  /\ \E r \in {"main", "part_002"}, t \in {"bar", "line"},
        c \in CurrentSeries, f \in ReferenceSeries, u \in BOOLEAN :
       brChart = [rev |-> r, type |-> t, cur |-> c, ref |-> f, unfav |-> u]
  /\ brSel = NoSelection
  /\ brTip = [kind |-> "hidden"]
  /\ brHi = {}
  /\ brLast = "none"

NextBrush ==
  \/ BR_Brush \/ BR_End \/ BR_MouseMove \/ BR_MouseLeave
  \/ BR_BarEnter \/ BR_BarLeave

SpecBrush == InitBrush /\ [][NextBrush]_vars

\* The index set of the brush selection: the points of the current series
\* whose position lies inside the selection.
SelectedSet ==
  IF brSel = NoSelection THEN {}
  ELSE {i \in 0..(Len(brChart.cur) - 1) :
          /\ pointPosition(brChart, i) >= brSel[1]
          /\ pointPosition(brChart, i) <= brSel[2]}

\* The sum of a series over a set of indices counted from 0; an index the
\* series does not have adds nothing.
RECURSIVE SumOver(_, _)
SumOver(values, S) ==
  IF S = {} THEN 0
  ELSE LET i == CHOOSE j \in S : TRUE
       IN  (IF i + 1 <= Len(values) THEN values[i + 1] ELSE 0)
           + SumOver(values, S \ {i})

\* t tenths of a percent is delta / reference * 100 to one decimal.
IsPercentOf(t, delta, reference) ==
  LET e == 1000 * delta - t * reference
  IN  2 * (IF e < 0 THEN 0 - e ELSE e) <= reference

\* What the aggregated tooltip reports besides the percentage.
AggregatedSums ==
  /\ brTip.kind = "selected"
  /\ brTip.current = SumOver(brChart.cur, SelectedSet)
  /\ brTip.reference = SumOver(brChart.ref, SelectedSet)
  /\ brTip.diff = brTip.current - brTip.reference
  /\ brTip.count = Cardinality(SelectedSet)

C22_BrushSuppressesHover ==
  [][((brSel # NoSelection /\ brLast' \in {"mousemove", "mouseleave"}) =>
        (brTip' = brTip /\ brHi' = brHi))]_vars

\* The pointer moved over a bar chart whose brush selects two bars: the
\* aggregated tooltip and the two highlighted bars are still there.
C22_Witness ==
  /\ brChart.type = "bar"
  /\ brLast = "mousemove"
  /\ brSel # NoSelection
  /\ Cardinality(SelectedSet) = 2
  /\ brTip.kind = "selected"
  /\ brHi = SelectedSet

\* The classification the inversion rule prescribes: good when the delta is
\* positive and the metric is not unfavorable or when it is negative and the
\* metric is unfavorable, bad otherwise.
IsGood(delta, isUnfavorable) ==
  (delta > 0 /\ ~isUnfavorable) \/ (delta < 0 /\ isUnfavorable)

\* The tooltip shown classifies its delta as the rule prescribes.
TooltipClassified ==
  (brTip.kind \in {"point", "selected"} /\ ~brTip.nan) =>
    (brTip.colorClass = "positive" <=> IsGood(brTip.diff, brChart.unfav))

\* The current bar under the point tooltip is filled as the rule prescribes.
BarClassified ==
  (brTip.kind = "point" /\ ~brTip.nan /\ brChart.type = "bar") =>
    (barFill(brChart, brTip.index) = "#4f46e5"
       <=> IsGood(brTip.diff, brChart.unfav))

\* C23: for every delta and every isUnfavorable flag, the point tooltip,
\* the summary tooltip and the fill of the bars classify the delta alike:
\* good when it is positive and the metric is not unfavorable or when it is
\* negative and the metric is unfavorable, bad otherwise.
C23_DeltaClassifiedAlike == TooltipClassified /\ BarClassified

\* The part of C23 that holds: every delta other than zero is classified as
\* the rule prescribes by the tooltips and by the fill of the bars.
C23_NonZeroDeltaClassifiedAlike ==
  brChart # << >> =>
    /\ (brTip.kind \in {"point", "selected"} /\ ~brTip.nan /\ brTip.diff # 0)
         => (brTip.colorClass = "positive"
               <=> IsGood(brTip.diff, brChart.unfav))
    /\ brChart.type = "bar" =>
         \A i \in 0..(Len(brChart.cur) - 1) :
           brChart.cur[i + 1] # refValueOrZero(brChart.ref, i) =>
             (barFill(brChart, i) = "#4f46e5" <=>
                IsGood(brChart.cur[i + 1] - refValueOrZero(brChart.ref, i),
                       brChart.unfav))
====
